---- MODULE Spec2Model ----
(***************************************************************************)
(* coredns-acme: the three storage backends (MemDB, SQLiteDB, BadgerDB),   *)
(* the DNS resolution handler ACME.ServeDNS and the HTTP Auth pipeline     *)
(* with the present / cleanup handlers.  Spec runs the served plugin,      *)
(* SpecStore and SpecAccounts the storage interface alone, SpecGates the   *)
(* gates of Auth and ServeDNS on stores that may fail.                     *)
(*                                                                         *)
(* Go strings are sequences of one-character strings, so that key          *)
(* building (username + ":" + zone), prefix scans, suffix tests and SQL    *)
(* LIKE act on characters exactly as the code does.                        *)
(***************************************************************************)
EXTENDS Integers, Sequences, FiniteSets, TLC

\* db: the store behind a.db; cfg: the ACME fields parse sets; last: the
\* last call and its outcome; live: the (fqdn, value) pairs presented and
\* not cleaned up since; presented: the names a direct PresentRecord call
\* on the storage interface has succeeded for; calls: the calls of the
\* store that goroutines are in the middle of
VARIABLES db, cfg, last, live, presented, calls

vars == <<db, cfg, last, live, presented, calls>>

\* the goroutines that call the store at the same time
Procs == {1, 2}

\* calls[p]: where goroutine p stands in a call of the store; no call
Idle == [pc |-> "idle", fqdn |-> <<>>, value |-> <<>>]

NoCalls == [p \in Procs |-> Idle]

(***************************************************************************)
(* Strings                                                                 *)
(***************************************************************************)

UpperAlpha == <<"A","B","C","D","E","F","G","H","I","J","K","L","M",
                "N","O","P","Q","R","S","T","U","V","W","X","Y","Z">>

LowerAlpha == <<"a","b","c","d","e","f","g","h","i","j","k","l","m",
                "n","o","p","q","r","s","t","u","v","w","x","y","z">>

Digits == <<"0","1","2","3","4","5","6","7","8","9">>

\* strings.ToLower on one ASCII character
LowerMap == [c \in {UpperAlpha[i] : i \in 1..26} |-> LowerAlpha[CHOOSE i \in 1..26 : UpperAlpha[i] = c]]

ToLowerChar(c) == IF c \in DOMAIN LowerMap THEN LowerMap[c] ELSE c

ToLower(s) == [i \in 1..Len(s) |-> ToLowerChar(s[i])]

\* the byte value of the characters the model uses (ASCII)
OrdMap ==
    [c \in {UpperAlpha[i] : i \in 1..26} \cup {LowerAlpha[i] : i \in 1..26}
           \cup {Digits[i] : i \in 1..10}
           \cup {" ", "$", "%", "+", ",", "-", ".", "/", ":", "=", "_"} |->
        IF \E i \in 1..26 : UpperAlpha[i] = c
        THEN 64 + (CHOOSE i \in 1..26 : UpperAlpha[i] = c)
        ELSE IF \E i \in 1..26 : LowerAlpha[i] = c
        THEN 96 + (CHOOSE i \in 1..26 : LowerAlpha[i] = c)
        ELSE IF \E i \in 1..10 : Digits[i] = c
        THEN 47 + (CHOOSE i \in 1..10 : Digits[i] = c)
        ELSE CASE c = " " -> 32
               [] c = "$" -> 36
               [] c = "%" -> 37
               [] c = "+" -> 43
               [] c = "," -> 44
               [] c = "-" -> 45
               [] c = "." -> 46
               [] c = "/" -> 47
               [] c = ":" -> 58
               [] c = "=" -> 61
               [] c = "_" -> 95]

\* bytes.Compare(a, b) < 0
RECURSIVE BytesLess(_, _)
BytesLess(a, b) ==
    IF b = <<>> THEN FALSE
    ELSE IF a = <<>> THEN TRUE
    ELSE IF OrdMap[Head(a)] # OrdMap[Head(b)] THEN OrdMap[Head(a)] < OrdMap[Head(b)]
    ELSE BytesLess(Tail(a), Tail(b))

\* strings.HasPrefix / strings.HasSuffix
HasPrefix(s, p) == Len(p) <= Len(s) /\ SubSeq(s, 1, Len(p)) = p

HasSuffix(s, x) == Len(x) <= Len(s) /\ SubSeq(s, Len(s) - Len(x) + 1, Len(s)) = x

\* s[n:]
Drop(s, n) == SubSeq(s, n + 1, Len(s))

\* strings.Split(s, sep) for a one-character separator: the parts between
\* the places of sep, in order
Split(s, sep) ==
    LET at == {i \in 1..Len(s) : s[i] = sep}
        nth(k) == IF k = 0 THEN 0
                  ELSE IF k > Cardinality(at) THEN Len(s) + 1
                  ELSE CHOOSE p \in at : Cardinality({q \in at : q < p}) = k - 1
    IN  [k \in 1..(Cardinality(at) + 1) |-> SubSeq(s, nth(k - 1) + 1, nth(k) - 1)]

\* SQLite's  s LIKE p : '%' is any run of characters, '_' any one character,
\* every other character compares without regard to ASCII case
RECURSIVE Like(_, _)
Like(s, p) ==
    IF p = <<>> THEN s = <<>>
    ELSE IF Head(p) = "%" THEN \E k \in 0..Len(s) : Like(Drop(s, k), Tail(p))
    ELSE /\ s # <<>>
         /\ (Head(p) = "_" \/ ToLowerChar(Head(p)) = ToLowerChar(Head(s)))
         /\ Like(Tail(s), Tail(p))

\* the sequence of the elements of a set of strings, in byte order
RECURSIVE SortedSeq(_)
SortedSeq(S) ==
    IF S = {} THEN <<>>
    ELSE LET m == CHOOSE x \in S : \A y \in S \ {x} : BytesLess(x, y)
         IN  <<m>> \o SortedSeq(S \ {m})

Range(q) == {q[i] : i \in 1..Len(q)}

\* a Go map with key k set to v
MapPut(m, k, v) == [x \in DOMAIN m \cup {k} |-> IF x = k THEN v ELSE m[x]]

(***************************************************************************)
(* Errors (db.go, memDB.go, database/sql, badger)                          *)
(***************************************************************************)

Nil == "nil"

ErrRecordNotFound == "record not found"

ErrReadOnlyDatabase == "database is in read-only mode"

\* badger.ErrReadOnlyTxn, what a Set or Delete returns on a read-only handle
ErrReadOnlyTxn == "No sets or deletes are allowed in a read-only transaction"

ErrValueNotFound == "value not found"

\* the driver's error for an INSERT that breaks PRIMARY KEY (username, zone)
ErrConstraint == "UNIQUE constraint failed: accounts.username, accounts.zone"

(***************************************************************************)
(* Account and CIDRList                                                    *)
(***************************************************************************)

Account(u, p, z, ips) == [Username |-> u, Password |-> p, Zone |-> z, AllowedIPs |-> ips]

\* Account{} : the zero value
NoAccount == Account(<<>>, <<>>, <<>>, <<>>)

\* strings.TrimSpace, for the blank the model uses
RECURSIVE TrimLeft(_)
TrimLeft(s) == IF s # <<>> /\ Head(s) = " " THEN TrimLeft(Tail(s)) ELSE s

RECURSIVE TrimRight(_)
TrimRight(s) ==
    IF s # <<>> /\ s[Len(s)] = " " THEN TrimRight(SubSeq(s, 1, Len(s) - 1)) ELSE s

TrimSpace(s) == TrimRight(TrimLeft(s))

\* CIDRList.String : strings.Join(c, ",")
RECURSIVE CIDRListString(_)
CIDRListString(c) ==
    IF c = <<>> THEN <<>>
    ELSE IF Len(c) = 1 THEN c[1]
    ELSE c[1] \o <<",">> \o CIDRListString(Tail(c))

NonEmptyStr(s) == s # <<>>

TrimEach(parts) == [i \in 1..Len(parts) |-> TrimSpace(parts[i])]

NewCIDRList(cidrs) ==
    IF cidrs = <<>> THEN <<>>
    ELSE SelectSeq(TrimEach(Split(cidrs, ",")), NonEmptyStr)

(***************************************************************************)
(* MemDB (memDB.go)                                                        *)
(***************************************************************************)

NewMemDB == [kind |-> "mem", readOnly |-> FALSE, records |-> <<>>, accounts |-> <<>>]

MemGetRecords(m, fqdn) ==
    IF fqdn \notin DOMAIN m.records \/ Len(m.records[fqdn]) = 0
    THEN [val |-> <<>>, err |-> ErrRecordNotFound]
    ELSE [val |-> m.records[fqdn], err |-> Nil]

\* the accounts the range loop of GetAccount keeps as candidates
MemCandidates(m, username, subdomain) ==
    {k \in DOMAIN m.accounts :
        LET parts == Split(k, ":")
        IN  /\ Len(parts) = 2
            /\ parts[1] = username
            /\ HasSuffix(subdomain, <<".">> \o parts[2])}

\* GetAccount whose loop keeps only the accounts with a zone
MemGetAccountZoned(m, username, subdomain) ==
    LET key == username \o <<":">> \o subdomain
        cand == {k \in MemCandidates(m, username, subdomain) : Split(k, ":")[2] # <<>>}
        zlen(k) == 1 + Len(Split(k, ":")[2])
    IN  IF key \in DOMAIN m.accounts
        THEN {[val |-> m.accounts[key], err |-> Nil]}
        ELSE IF cand = {}
        THEN {[val |-> NoAccount, err |-> ErrRecordNotFound]}
        ELSE {[val |-> m.accounts[k], err |-> Nil] :
                 k \in {c \in cand : \A d \in cand : zlen(d) <= zlen(c)}}

MemGetAccount(m, username, subdomain) ==
    LET key == username \o <<":">> \o subdomain
        cand == MemCandidates(m, username, subdomain)
        zlen(k) == 1 + Len(Split(k, ":")[2])
    IN  IF key \in DOMAIN m.accounts
        THEN {[val |-> m.accounts[key], err |-> Nil]}
        ELSE IF cand = {}
        THEN {[val |-> NoAccount, err |-> ErrRecordNotFound]}
        ELSE \* map iteration order is random: a later candidate replaces the
             \* best one only when its zone is strictly longer
             {[val |-> m.accounts[k], err |-> Nil] :
                 k \in {c \in cand : \A d \in cand : zlen(d) <= zlen(c)}}

MemRegisterAccount(m, a, passwordHash) ==
    [db  |-> [m EXCEPT !.accounts =
                 MapPut(m.accounts, a.Username \o <<":">> \o a.Zone,
                        [a EXCEPT !.Password = passwordHash])],
     err |-> Nil]

\* PresentRecord without the loop that looks for the value first
MemPresentRecordAppend(m, fqdn, value) ==
    LET records == IF fqdn \in DOMAIN m.records THEN m.records[fqdn] ELSE <<>>
    IN  [db |-> [m EXCEPT !.records = MapPut(m.records, fqdn, Append(records, value))],
         err |-> Nil]

MemPresentRecord(m, fqdn, value) ==
    LET records == IF fqdn \in DOMAIN m.records THEN m.records[fqdn] ELSE <<>>
    IN  IF value \in Range(records)
        THEN [db |-> m, err |-> Nil]
        ELSE [db |-> [m EXCEPT !.records = MapPut(m.records, fqdn, Append(records, value))],
              err |-> Nil]

\* CleanupRecord that returns nil after the loop has found no such value
MemCleanupRecordSilent(m, fqdn, value) ==
    IF fqdn \notin DOMAIN m.records THEN [db |-> m, err |-> Nil]
    ELSE LET records == m.records[fqdn]
         IN  IF value \in Range(records)
             THEN LET i == CHOOSE j \in 1..Len(records) :
                               records[j] = value /\ \A h \in 1..(j - 1) : records[h] # value
                  IN  [db  |-> [m EXCEPT !.records[fqdn] =
                                   SubSeq(records, 1, i - 1) \o SubSeq(records, i + 1, Len(records))],
                       err |-> Nil]
             ELSE [db |-> m, err |-> Nil]

MemCleanupRecord(m, fqdn, value) ==
    IF fqdn \notin DOMAIN m.records THEN [db |-> m, err |-> Nil]
    ELSE LET records == m.records[fqdn]
         IN  IF value \in Range(records)
             THEN LET i == CHOOSE j \in 1..Len(records) :
                               records[j] = value /\ \A h \in 1..(j - 1) : records[h] # value
                  IN  [db  |-> [m EXCEPT !.records[fqdn] =
                                   SubSeq(records, 1, i - 1) \o SubSeq(records, i + 1, Len(records))],
                       err |-> Nil]
             ELSE [db |-> m, err |-> ErrValueNotFound]

(***************************************************************************)
(* SQLiteDB (the relational backend).  The records table is kept as the    *)
(* sequence of its rows <<fqdn, value>> in the order of "updated", newest  *)
(* first; the accounts table as the set of its rows.                       *)
(***************************************************************************)

NewSQLiteDBWithROOption(readOnly) ==
    [kind |-> "sqlite", readOnly |-> readOnly, records |-> <<>>, accounts |-> {},
     closed |-> FALSE]

\* SELECT value FROM records WHERE fqdn = ? ORDER BY updated DESC
SqlValues(rows, fqdn) ==
    LET match(r) == r[1] = fqdn
        hit == SelectSeq(rows, match)
    IN  [i \in 1..Len(hit) |-> hit[i][2]]

SQLiteGetRecords(s, fqdn) ==
    LET values == SqlValues(s.records, fqdn)
    IN  IF s.closed THEN [val |-> <<>>, err |-> "sql: database is closed"]
        ELSE IF Len(values) = 0
        THEN [val |-> <<>>, err |-> ErrRecordNotFound]
        ELSE [val |-> values, err |-> Nil]

\* WHERE username = ? AND (zone = ? OR ? LIKE '%.' || zone)
SqlAccountRows(s, username, subdomain) ==
    {r \in s.accounts :
        /\ r.username = username
        /\ (r.zone = subdomain \/ Like(subdomain, <<"%", ".">> \o r.zone))}

\* ORDER BY LENGTH(zone) DESC LIMIT 1 : rows of equal length come in no
\* stated order, so each of the longest may be the one row returned
SQLiteGetAccount(s, username, subdomain) ==
    LET rows == SqlAccountRows(s, username, subdomain)
        top  == {r \in rows : \A q \in rows : Len(q.zone) <= Len(r.zone)}
    IN  IF rows = {}
        THEN {[val |-> NoAccount, err |-> ErrRecordNotFound]}
        ELSE {[val |-> Account(r.username, r.password, r.zone,
                               IF r.allowfrom # <<>> THEN NewCIDRList(r.allowfrom) ELSE <<>>),
               err |-> Nil] : r \in top}

\* RegisterAccount with INSERT OR REPLACE
SQLiteRegisterAccountReplace(s, a, passwordHash) ==
    IF s.readOnly THEN [db |-> s, err |-> ErrReadOnlyDatabase]
    ELSE [db  |-> [s EXCEPT !.accounts =
                      {r \in @ : ~(r.username = a.Username /\ r.zone = a.Zone)} \cup
                      {[username |-> a.Username, password |-> passwordHash,
                        zone |-> a.Zone, allowfrom |-> CIDRListString(a.AllowedIPs)]}],
          err |-> Nil]

SQLiteRegisterAccount(s, a, passwordHash) ==
    IF s.readOnly THEN [db |-> s, err |-> ErrReadOnlyDatabase]
    ELSE IF \E r \in s.accounts : r.username = a.Username /\ r.zone = a.Zone
    THEN [db |-> s, err |-> ErrConstraint]
    ELSE [db  |-> [s EXCEPT !.accounts = @ \cup
                      {[username |-> a.Username, password |-> passwordHash,
                        zone |-> a.Zone, allowfrom |-> CIDRListString(a.AllowedIPs)]}],
          err |-> Nil]

SqlDelete(rows, fqdn, value) ==
    LET keep(r) == r # <<fqdn, value>>
    IN  SelectSeq(rows, keep)

\* PresentRecord without the test of s.readOnly
SQLitePresentRecordUnguarded(s, fqdn, value) ==
    [db  |-> [s EXCEPT !.records = <<(<<fqdn, value>>)>> \o SqlDelete(@, fqdn, value)],
     err |-> Nil]

\* INSERT OR REPLACE INTO records (fqdn, value, updated) VALUES (?, ?, now)
SQLitePresentRecord(s, fqdn, value) ==
    IF s.readOnly THEN [db |-> s, err |-> ErrReadOnlyDatabase]
    ELSE [db  |-> [s EXCEPT !.records = <<(<<fqdn, value>>)>> \o SqlDelete(@, fqdn, value)],
          err |-> Nil]

\* DELETE FROM records WHERE fqdn = ? AND value = ?
SQLiteCleanupRecord(s, fqdn, value) ==
    IF s.readOnly THEN [db |-> s, err |-> ErrReadOnlyDatabase]
    ELSE [db |-> [s EXCEPT !.records = SqlDelete(@, fqdn, value)], err |-> Nil]

(***************************************************************************)
(* BadgerDB (badgerdb.go): one ordered key space, kv : key -> value        *)
(***************************************************************************)

recordKeyPrefix == <<"r","e","c","o","r","d",":">>

accountKeyPrefix == <<"a","c","c","o","u","n","t",":">>

\* NewBadgerDBWithROOption that starts the GC goroutine in both modes
NewBadgerDBAlwaysGC(readOnly) ==
    [kind |-> "badger", readOnly |-> readOnly, kv |-> <<>>, closed |-> FALSE,
     gc |-> "waiting"]

\* gc is the place of the goroutine that runs the value-log GC: "none" when
\* it was not started, "waiting" at the ticker, "again" before an attempt
NewBadgerDBWithROOption(readOnly) ==
    [kind |-> "badger", readOnly |-> readOnly, kv |-> <<>>, closed |-> FALSE,
     gc |-> IF readOnly THEN "none" ELSE "waiting"]

makeRecordKey(fqdn, value) == recordKeyPrefix \o fqdn \o <<":">> \o value

makeAccountKey(username, zone) == accountKeyPrefix \o username \o <<":">> \o zone

\* it.Seek(prefix); it.ValidForPrefix(prefix); it.Next() : the keys with the
\* prefix, in byte order
PrefixScan(b, prefix) == SortedSeq({k \in DOMAIN b.kv : HasPrefix(k, prefix)})

\* db.Update(func(txn) { return txn.Set(key, val) })
BadgerSet(b, key, val) ==
    IF b.readOnly THEN [db |-> b, err |-> ErrReadOnlyTxn]
    ELSE [db |-> [b EXCEPT !.kv = MapPut(@, key, val)], err |-> Nil]

\* db.Update(func(txn) { return txn.Delete(key) })
BadgerDelete(b, key) ==
    IF b.readOnly THEN [db |-> b, err |-> ErrReadOnlyTxn]
    ELSE [db |-> [b EXCEPT !.kv = [k \in (DOMAIN @) \ {key} |-> @[k]]], err |-> Nil]

BadgerRegisterAccount(b, account, hashedPassword) ==
    BadgerSet(b, makeAccountKey(account.Username, account.Zone),
              [account EXCEPT !.Password = hashedPassword])

\* the key the prefix scan of GetAccount ends with (<<>> for bestMatch == nil)
BadgerBestMatch(b, username, zone) ==
    LET zonePrefixKey == makeAccountKey(username, <<>>)
        keys == PrefixScan(b, zonePrefixKey)
        accountZone(k) == <<".">> \o Drop(k, Len(zonePrefixKey))
        hit(k) == HasSuffix(zone, accountZone(k))
        hits == SelectSeq(keys, hit)
        longest(k) == \A j \in 1..Len(hits) : Len(hits[j]) <= Len(k)
    IN  IF Len(hits) = 0 THEN <<>> ELSE SelectSeq(hits, longest)[1]

BadgerGetAccount(b, username, zone) ==
    LET accountKey == makeAccountKey(username, zone)
        bestMatch == BadgerBestMatch(b, username, zone)
        found == IF accountKey \in DOMAIN b.kv THEN b.kv[accountKey]
                 ELSE IF bestMatch # <<>> THEN b.kv[bestMatch]
                 ELSE NoAccount
    IN  IF accountKey \notin DOMAIN b.kv /\ bestMatch = <<>>
        THEN {[val |-> NoAccount, err |-> ErrRecordNotFound]}
        ELSE IF found.Username = <<>>
        THEN {[val |-> found, err |-> ErrRecordNotFound]}
        ELSE {[val |-> found, err |-> Nil]}

\* err is what b.db.View returns, "DB Closed" on a handle that Close has
\* closed: the iteration does not run and records stays empty
BadgerGetRecords(b, fqdn) ==
    LET prefix == makeRecordKey(fqdn, <<>>)
        keys == IF b.closed THEN <<>> ELSE PrefixScan(b, prefix)
        records == [i \in 1..Len(keys) |-> Drop(keys[i], Len(prefix))]
        err == IF b.closed THEN "DB Closed" ELSE Nil
    IN  IF Len(records) = 0
        THEN [val |-> <<>>, err |-> ErrRecordNotFound]
        ELSE [val |-> records, err |-> err]

BadgerPresentRecord(b, fqdn, value) == BadgerSet(b, makeRecordKey(fqdn, value), <<>>)

BadgerCleanupRecord(b, fqdn, value) == BadgerDelete(b, makeRecordKey(fqdn, value))

(***************************************************************************)
(* errorDB (acme_test.go): the store whose every call returns db.err       *)
(***************************************************************************)

ErrDatabase == "database error"

errorDB(err) == [kind |-> "error", err |-> err]

(***************************************************************************)
(* The DB interface (db.go): the call goes to the backend behind a.db      *)
(***************************************************************************)

GetRecords(d, fqdn) ==
    CASE d.kind = "mem"    -> MemGetRecords(d, fqdn)
      [] d.kind = "sqlite" -> SQLiteGetRecords(d, fqdn)
      [] d.kind = "badger" -> BadgerGetRecords(d, fqdn)
      [] d.kind = "error"  -> [val |-> <<>>, err |-> d.err]

PresentRecord(d, fqdn, value) ==
    CASE d.kind = "mem"    -> MemPresentRecord(d, fqdn, value)
      [] d.kind = "sqlite" -> SQLitePresentRecord(d, fqdn, value)
      [] d.kind = "badger" -> BadgerPresentRecord(d, fqdn, value)
      [] d.kind = "error"  -> [db |-> d, err |-> d.err]

CleanupRecord(d, fqdn, value) ==
    CASE d.kind = "mem"    -> MemCleanupRecord(d, fqdn, value)
      [] d.kind = "sqlite" -> SQLiteCleanupRecord(d, fqdn, value)
      [] d.kind = "badger" -> BadgerCleanupRecord(d, fqdn, value)
      [] d.kind = "error"  -> [db |-> d, err |-> d.err]

RegisterAccount(d, account, hashedPassword) ==
    CASE d.kind = "mem"    -> MemRegisterAccount(d, account, hashedPassword)
      [] d.kind = "sqlite" -> SQLiteRegisterAccount(d, account, hashedPassword)
      [] d.kind = "badger" -> BadgerRegisterAccount(d, account, hashedPassword)
      [] d.kind = "error"  -> [db |-> d, err |-> d.err]

\* the set of results the call may give
GetAccount(d, username, zone) ==
    CASE d.kind = "mem"    -> MemGetAccount(d, username, zone)
      [] d.kind = "sqlite" -> SQLiteGetAccount(d, username, zone)
      [] d.kind = "badger" -> BadgerGetAccount(d, username, zone)
      [] d.kind = "error"  -> {[val |-> NoAccount, err |-> d.err]}

(***************************************************************************)
(* Helpers of the API (isValidTXT), CIDRList.contains, and the three       *)
(* library calls the handlers rest on: dns.CanonicalName,                  *)
(* plugin.Zones.Matches and net.SplitHostPort                              *)
(***************************************************************************)

TXT_LENGTH == 43

\* A-Z, a-z, 0-9, '-', '_' and '='
TxtChars ==
    {UpperAlpha[i] : i \in 1..26} \cup {LowerAlpha[i] : i \in 1..26}
        \cup {Digits[i] : i \in 1..10} \cup {"-", "_", "="}

\* isValidTXT with the alphabet of standard base64: '+' and '/' pass too
isValidTXTBase64(txt) ==
    Len(txt) = TXT_LENGTH /\ \A i \in 1..Len(txt) : txt[i] \in TxtChars \cup {"+", "/"}

isValidTXT(txt) == Len(txt) = TXT_LENGTH /\ \A i \in 1..Len(txt) : txt[i] \in TxtChars

DigitValue == [c \in {Digits[i] : i \in 1..10} |-> (CHOOSE i \in 1..10 : Digits[i] = c) - 1]

\* the decimal number a string of digits writes, -1 when it writes none
RECURSIVE DecValue(_, _)
DecValue(s, acc) ==
    IF s = <<>> THEN acc
    ELSE IF Head(s) \in DOMAIN DigitValue
    THEN DecValue(Tail(s), 10 * acc + DigitValue[Head(s)])
    ELSE -1

ParseDec(s) ==
    IF s = <<>> \/ Len(s) > 3 \/ (Len(s) > 1 /\ Head(s) = "0") THEN -1 ELSE DecValue(s, 0)

\* net.ParseIP for dotted-decimal IPv4 text (the addresses of the model):
\* the address as a number, -1 when the text is no address
ParseIP(s) ==
    LET parts == Split(s, ".")
        n == [i \in 1..Len(parts) |-> ParseDec(parts[i])]
    IN  IF Len(parts) # 4 THEN -1
        ELSE IF \E i \in 1..4 : n[i] < 0 \/ n[i] > 255 THEN -1
        ELSE ((n[1] * 256 + n[2]) * 256 + n[3]) * 256 + n[4]

\* net.ParseCIDR : [ip, bits], bits = -1 when the text is no CIDR range
ParseCIDR(s) ==
    LET parts == Split(s, "/")
        ip == ParseIP(parts[1])
        bits == ParseDec(parts[2])
    IN  IF Len(parts) # 2 THEN [ip |-> -1, bits |-> -1]
        ELSE IF ip < 0 \/ bits < 0 \/ bits > 32 \/ Len(parts[2]) > 2
        THEN [ip |-> -1, bits |-> -1]
        ELSE [ip |-> ip, bits |-> bits]

\* ipNet.Contains(ip)
NetContains(net, ip) ==
    LET unit == 2 ^ (32 - net.bits)
    IN  ip \div unit = net.ip \div unit

\* one round of the loop of CIDRList.contains
EntryContains(cidr, ip) ==
    \/ cidr = ip
    \/ /\ "/" \in Range(cidr)
       /\ LET net == ParseCIDR(cidr)
              addr == ParseIP(ip)
          IN  net.bits >= 0 /\ addr >= 0 /\ NetContains(net, addr)

\* CIDRList.isValid : every entry passes isValidCIDR (net.ParseCIDR of the
\* entry without '[' and ']') or isValidIP (net.ParseIP)
isValid(c) ==
    LET notBracket(ch) == ch \notin {"[", "]"}
        sanitizeIPv6addr(s) == SelectSeq(s, notBracket)
        isValidCIDR(cidr) == ParseCIDR(sanitizeIPv6addr(cidr)).bits >= 0
        isValidIP(ip) == ParseIP(ip) >= 0
    IN  \A i \in 1..Len(c) : isValidCIDR(c[i]) \/ isValidIP(c[i])

CIDRContains(c, ip) ==
    IF Len(c) = 0 THEN TRUE
    ELSE \E i \in 1..Len(c) : EntryContains(c[i], ip)

\* dns.Fqdn and dns.CanonicalName
CanonicalName(s) == ToLower(IF s # <<>> /\ s[Len(s)] = "." THEN s ELSE Append(s, "."))

\* the labels of a domain name, leftmost first; the root has none
Labels(s) ==
    IF s = <<>> \/ s = <<".">> THEN <<>>
    ELSE Split(IF s[Len(s)] = "." THEN SubSeq(s, 1, Len(s) - 1) ELSE s, ".")

\* dns.IsSubDomain(parent, child): the labels of parent end those of child,
\* compared without regard to case
IsSubDomain(parent, child) ==
    LET p == Labels(ToLower(parent))
        c == Labels(ToLower(child))
    IN  Len(p) <= Len(c) /\ SubSeq(c, Len(c) - Len(p) + 1, Len(c)) = p

\* plugin.Zones(zones).Matches(qname): the longest zone qname is under, "" when none
ZonesMatches(zones, qname) ==
    LET hits == {i \in 1..Len(zones) : IsSubDomain(zones[i], qname)}
    IN  IF hits = {} THEN <<>>
        ELSE zones[CHOOSE i \in hits : \A j \in hits :
                      Len(zones[j]) < Len(zones[i]) \/ (Len(zones[j]) = Len(zones[i]) /\ i <= j)]

\* a policy that lets every name through
FallThroughAlways(fall, qname) == TRUE

\* fall.F.Through(qname)
FallThrough(fall, qname) == ZonesMatches(fall, qname) # <<>>

\* net.SplitHostPort for "host:port" without brackets: the host, "" on an error
SplitHostPort(addr) ==
    LET parts == Split(addr, ":")
    IN  IF Len(parts) = 2 THEN parts[1] ELSE <<>>

\* bcrypt: the digest of a password, and CompareHashAndPassword(digest, pw) == nil
Hash(password) == <<"$","2","a","$">> \o password

CompareHashAndPassword(digest, password) == digest = Hash(password)

(***************************************************************************)
(* ACME.Auth (auth.go) and the handlers behind it                          *)
(***************************************************************************)

ErrNoAuthenticationCredentials == "no authentication credentials"

ErrInvalidUsernameOrPassword == "invalid username or password"

ErrAuthDisabled == "authentication disabled"

StatusOK == 200

StatusCreated == 201

StatusBadRequest == 400

StatusUnauthorized == 401

StatusForbidden == 403

StatusInternalServerError == 500

\* getIPFromHeader: the first entry of the comma-separated header that is
\* not blank, trimmed
getIPFromHeader(header) ==
    LET ips == SelectSeq(TrimEach(Split(header, ",")), NonEmptyStr)
    IN  IF header = <<>> \/ Len(ips) = 0 THEN <<>> ELSE ips[1]

\* getClientIP that falls back to the peer address when the header gives no IP
getClientIPFallback(r, headerName) ==
    IF headerName # <<>> /\ getIPFromHeader(r.ipHeader) # <<>> THEN getIPFromHeader(r.ipHeader)
    ELSE SplitHostPort(r.RemoteAddr)

getClientIP(r, headerName) ==
    IF headerName # <<>> THEN getIPFromHeader(r.ipHeader)
    ELSE SplitHostPort(r.RemoteAddr)

\* the X-Api-User / X-Api-Key pair first, r.BasicAuth() when there is none
CredentialsHeadersFirst(r) ==
    IF r.apiUser # <<>> \/ r.apiKey # <<>> THEN [username |-> r.apiUser, password |-> r.apiKey]
    ELSE IF r.basic # <<>> THEN [username |-> r.basic[1], password |-> r.basic[2]]
    ELSE [username |-> <<>>, password |-> <<>>]

\* r.BasicAuth(), and the X-Api-User / X-Api-Key pair when there is none
Credentials(r) ==
    IF r.basic # <<>> THEN [username |-> r.basic[1], password |-> r.basic[2]]
    ELSE [username |-> r.apiUser, password |-> r.apiKey]

\* the set of results (account, err) the call may give
\* getAccountFromRequestAndSubdomain that also tries the password on the
\* accounts GetAccount returns for the parents of subdomain
getAccountAnyZone(d, c, r, subdomain) ==
    LET cr == Credentials(r)
        parents == {Drop(subdomain, k) :
                       k \in {0} \cup {i \in 1..(Len(subdomain) - 1) : subdomain[i] = "."}}
        verified == {g \in UNION {GetAccount(d, cr.username, sub) : sub \in parents} :
                        g.err = Nil /\ CompareHashAndPassword(g.val.Password, cr.password)}
    IN  IF ~c.RequireAuth THEN {[val |-> NoAccount, err |-> ErrAuthDisabled]}
        ELSE IF cr.username = <<>> \/ cr.password = <<>>
        THEN {[val |-> NoAccount, err |-> ErrNoAuthenticationCredentials]}
        ELSE IF verified # {} THEN {[val |-> g.val, err |-> Nil] : g \in verified}
        ELSE {IF g.err # Nil THEN [val |-> NoAccount, err |-> g.err]
              ELSE [val |-> NoAccount, err |-> ErrInvalidUsernameOrPassword] :
                 g \in GetAccount(d, cr.username, subdomain)}

getAccountFromRequestAndSubdomain(d, c, r, subdomain) ==
    LET cr == Credentials(r)
    IN  IF ~c.RequireAuth THEN {[val |-> NoAccount, err |-> ErrAuthDisabled]}
        ELSE IF cr.username = <<>> \/ cr.password = <<>>
        THEN {[val |-> NoAccount, err |-> ErrNoAuthenticationCredentials]}
        ELSE {IF g.err # Nil THEN [val |-> NoAccount, err |-> g.err]
              ELSE IF ~CompareHashAndPassword(g.val.Password, cr.password)
              THEN [val |-> NoAccount, err |-> ErrInvalidUsernameOrPassword]
              ELSE [val |-> g.val, err |-> Nil] :
                 g \in GetAccount(d, cr.username, subdomain)}

\* what Auth answers itself (next not called)
Reject(code, status, why) ==
    [called |-> FALSE, status |-> status, code |-> code, authErr |-> why,
     hasAccount |-> FALSE, account |-> NoAccount, FQDN |-> <<>>, Value |-> <<>>]

\* next(w, r.WithContext(ctx)) : the context values next is called with
Pass(hasAccount, account, fqdn, value) ==
    [called |-> TRUE, status |-> 0, code |-> "", authErr |-> Nil,
     hasAccount |-> hasAccount, account |-> account, FQDN |-> fqdn, Value |-> value]

\* the account gate without the return that follows writeJSONError: the
\* error is written and the request goes on to next with the zero Account
AuthAccountNoReturn(g, clientIP, fqdn, value) ==
    IF g.err # Nil
    THEN [Pass(TRUE, g.val, fqdn, value) EXCEPT
             !.status = StatusUnauthorized, !.code = "unauthorized", !.authErr = g.err]
    ELSE IF Len(g.val.AllowedIPs) > 0 /\ ~CIDRContains(g.val.AllowedIPs, clientIP)
    THEN Reject("forbidden_ip", StatusForbidden, Nil)
    ELSE Pass(TRUE, g.val, fqdn, value)

\* the account gate without the test of the account's AllowedIPs
AuthAccountAnyIP(g, clientIP, fqdn, value) ==
    IF g.err # Nil THEN Reject("unauthorized", StatusUnauthorized, g.err)
    ELSE Pass(TRUE, g.val, fqdn, value)

\* the account gate with an answer of its own for a username without account
AuthAccountNamesUnknown(g, clientIP, fqdn, value) ==
    IF g.err = ErrRecordNotFound THEN Reject("unknown_user", 404, g.err)
    ELSE IF g.err # Nil THEN Reject("unauthorized", StatusUnauthorized, g.err)
    ELSE IF Len(g.val.AllowedIPs) > 0 /\ ~CIDRContains(g.val.AllowedIPs, clientIP)
    THEN Reject("forbidden_ip", StatusForbidden, Nil)
    ELSE Pass(TRUE, g.val, fqdn, value)

\* the account gate of Auth, for one result of the account lookup
AuthAccount(g, clientIP, fqdn, value) ==
    IF g.err # Nil THEN Reject("unauthorized", StatusUnauthorized, g.err)
    ELSE IF Len(g.val.AllowedIPs) > 0 /\ ~CIDRContains(g.val.AllowedIPs, clientIP)
    THEN Reject("forbidden_ip", StatusForbidden, Nil)
    ELSE Pass(TRUE, g.val, fqdn, value)

\* Auth with the body tested before the client IP
AuthBodyFirst(d, c, r) ==
    LET clientIP == getClientIP(r, c.ExtractIPFromHeader)
        fqdn == CanonicalName(r.body.fqdn)
    IN  IF r.body.kind = "none"
        THEN {Reject("no_request_body", StatusBadRequest, Nil)}
        ELSE IF clientIP = <<>> \/ ~CIDRContains(c.AllowedIPs, clientIP)
        THEN {Reject("forbidden_ip", StatusForbidden, Nil)}
        ELSE IF r.body.kind = "malformed"
        THEN {Reject("invalid_request", StatusBadRequest, Nil)}
        ELSE IF ZonesMatches(c.Zones, fqdn) = <<>>
        THEN {Reject("invalid_subdomain", StatusBadRequest, Nil)}
        ELSE IF ~isValidTXT(r.body.value)
        THEN {Reject("invalid_txt_record", StatusBadRequest, Nil)}
        ELSE IF c.RequireAuth
        THEN {AuthAccount(g, clientIP, fqdn, r.body.value) :
                 g \in getAccountFromRequestAndSubdomain(d, c, r, fqdn)}
        ELSE {Pass(FALSE, NoAccount, fqdn, r.body.value)}

\* the set of outcomes of the middleware for request r
\* Auth with the TXT value tested before the zone of the name
AuthTxtBeforeZone(d, c, r) ==
    LET clientIP == getClientIP(r, c.ExtractIPFromHeader)
        fqdn == CanonicalName(r.body.fqdn)
    IN  IF clientIP = <<>> \/ ~CIDRContains(c.AllowedIPs, clientIP)
        THEN {Reject("forbidden_ip", StatusForbidden, Nil)}
        ELSE IF r.body.kind = "none"
        THEN {Reject("no_request_body", StatusBadRequest, Nil)}
        ELSE IF r.body.kind = "malformed"
        THEN {Reject("invalid_request", StatusBadRequest, Nil)}
        ELSE IF ~isValidTXT(r.body.value)
        THEN {Reject("invalid_txt_record", StatusBadRequest, Nil)}
        ELSE IF ZonesMatches(c.Zones, fqdn) = <<>>
        THEN {Reject("invalid_subdomain", StatusBadRequest, Nil)}
        ELSE IF c.RequireAuth
        THEN {AuthAccount(g, clientIP, fqdn, r.body.value) :
                 g \in getAccountFromRequestAndSubdomain(d, c, r, fqdn)}
        ELSE {Pass(FALSE, NoAccount, fqdn, r.body.value)}

Auth(d, c, r) ==
    LET clientIP == getClientIP(r, c.ExtractIPFromHeader)
        fqdn == CanonicalName(r.body.fqdn)
    IN  IF clientIP = <<>> \/ ~CIDRContains(c.AllowedIPs, clientIP)
        THEN {Reject("forbidden_ip", StatusForbidden, Nil)}
        ELSE IF r.body.kind = "none"
        THEN {Reject("no_request_body", StatusBadRequest, Nil)}
        ELSE IF r.body.kind = "malformed"
        THEN {Reject("invalid_request", StatusBadRequest, Nil)}
        ELSE IF ZonesMatches(c.Zones, fqdn) = <<>>
        THEN {Reject("invalid_subdomain", StatusBadRequest, Nil)}
        ELSE IF ~isValidTXT(r.body.value)
        THEN {Reject("invalid_txt_record", StatusBadRequest, Nil)}
        ELSE IF c.RequireAuth
        THEN {AuthAccount(g, clientIP, fqdn, r.body.value) :
                 g \in getAccountFromRequestAndSubdomain(d, c, r, fqdn)}
        ELSE {Pass(FALSE, NoAccount, fqdn, r.body.value)}

\* handlePresent / handleCleanup : [db, status, code] for the context ctx
handlePresent(d, ctx) ==
    IF ~ctx.hasAccount THEN [db |-> d, status |-> StatusUnauthorized, code |-> "unauthorized"]
    ELSE LET res == PresentRecord(d, ctx.FQDN, ctx.Value)
         IN  IF res.err # Nil
             THEN [db |-> d, status |-> StatusInternalServerError, code |-> "present_failed"]
             ELSE [db |-> res.db, status |-> StatusOK, code |-> ""]

handleCleanup(d, ctx) ==
    IF ~ctx.hasAccount THEN [db |-> d, status |-> StatusUnauthorized, code |-> "unauthorized"]
    ELSE LET res == CleanupRecord(d, ctx.FQDN, ctx.Value)
         IN  IF res.err # Nil
             THEN [db |-> d, status |-> StatusInternalServerError, code |-> "cleanup_failed"]
             ELSE [db |-> res.db, status |-> StatusOK, code |-> ""]

\* handleRegister with the password itself handed to the store
handleRegisterPlain(d, c, r) ==
    LET zone == CanonicalName(r.Zone)
        res == RegisterAccount(d, Account(r.Username, r.Password, zone, r.AllowFrom), r.Password)
    IN  IF r.kind = "none"
        THEN [db |-> d, status |-> StatusBadRequest, code |-> "no_registration_request"]
        ELSE IF r.kind = "malformed"
        THEN [db |-> d, status |-> StatusBadRequest, code |-> "malformed_json"]
        ELSE IF r.Username = <<>> \/ r.Password = <<>> \/ r.Zone = <<>>
        THEN [db |-> d, status |-> StatusBadRequest, code |-> "missing_required_fields"]
        ELSE IF ZonesMatches(c.Zones, zone) = <<>>
        THEN [db |-> d, status |-> StatusBadRequest, code |-> "invalid_zone"]
        ELSE IF ~isValid(r.AllowFrom)
        THEN [db |-> d, status |-> StatusBadRequest, code |-> "invalid_allowfrom_cidr"]
        ELSE IF res.err # Nil
        THEN [db |-> d, status |-> StatusInternalServerError, code |-> "registration_failed"]
        ELSE [db |-> res.db, status |-> StatusCreated, code |-> ""]

\* handleRegister without the test of the allowfrom entries
handleRegisterAnyAllowFrom(d, c, r) ==
    LET zone == CanonicalName(r.Zone)
        res == RegisterAccount(d, Account(r.Username, r.Password, zone, r.AllowFrom),
                               Hash(r.Password))
    IN  IF r.kind = "none"
        THEN [db |-> d, status |-> StatusBadRequest, code |-> "no_registration_request"]
        ELSE IF r.kind = "malformed"
        THEN [db |-> d, status |-> StatusBadRequest, code |-> "malformed_json"]
        ELSE IF r.Username = <<>> \/ r.Password = <<>> \/ r.Zone = <<>>
        THEN [db |-> d, status |-> StatusBadRequest, code |-> "missing_required_fields"]
        ELSE IF ZonesMatches(c.Zones, zone) = <<>>
        THEN [db |-> d, status |-> StatusBadRequest, code |-> "invalid_zone"]
        ELSE IF res.err # Nil
        THEN [db |-> d, status |-> StatusInternalServerError, code |-> "registration_failed"]
        ELSE [db |-> res.db, status |-> StatusCreated, code |-> ""]

\* handleRegister : [db, status, code] for the registration request r
handleRegister(d, c, r) ==
    LET zone == CanonicalName(r.Zone)
        res == RegisterAccount(d, Account(r.Username, r.Password, zone, r.AllowFrom),
                               Hash(r.Password))
    IN  IF r.kind = "none"
        THEN [db |-> d, status |-> StatusBadRequest, code |-> "no_registration_request"]
        ELSE IF r.kind = "malformed"
        THEN [db |-> d, status |-> StatusBadRequest, code |-> "malformed_json"]
        ELSE IF r.Username = <<>> \/ r.Password = <<>> \/ r.Zone = <<>>
        THEN [db |-> d, status |-> StatusBadRequest, code |-> "missing_required_fields"]
        ELSE IF ZonesMatches(c.Zones, zone) = <<>>
        THEN [db |-> d, status |-> StatusBadRequest, code |-> "invalid_zone"]
        ELSE IF ~isValid(r.AllowFrom)
        THEN [db |-> d, status |-> StatusBadRequest, code |-> "invalid_allowfrom_cidr"]
        ELSE IF res.err # Nil
        THEN [db |-> d, status |-> StatusInternalServerError, code |-> "registration_failed"]
        ELSE [db |-> res.db, status |-> StatusCreated, code |-> ""]

(***************************************************************************)
(* ACME.ServeDNS : the outcome for question q when the next plugin would   *)
(* return nxt = [rcode, err]                                               *)
(***************************************************************************)

defaultTTL == 60

RcodeSuccess == 0

RcodeServerFailure == 2

RcodeNameError == 3

\* plugin.NextOrFailure(a.Name(), a.Next, ctx, w, r)
Forward(nxt) ==
    [rcode |-> nxt.rcode, err |-> nxt.err, forwarded |-> TRUE, written |-> FALSE,
     authoritative |-> FALSE, answer |-> <<>>, lookup |-> FALSE]

\* return code, err without writing a message
Return(rcode, err) ==
    [rcode |-> rcode, err |-> err, forwarded |-> FALSE, written |-> FALSE,
     authoritative |-> FALSE, answer |-> <<>>, lookup |-> TRUE]

\* w.WriteMsg(m); return dns.RcodeSuccess, nil
Reply(answer) ==
    [rcode |-> RcodeSuccess, err |-> Nil, forwarded |-> FALSE, written |-> TRUE,
     authoritative |-> TRUE, answer |-> answer, lookup |-> TRUE]

TXT(qname, record) == [Name |-> qname, Rrtype |-> "TXT", Ttl |-> defaultTTL, Txt |-> <<record>>]

AcmeChallenge == <<"_","a","c","m","e","-","c","h","a","l","l","e","n","g","e",".">>

\* ServeDNS with one TXT answer that carries every value
ServeDNSOneRR(d, c, q, nxt) ==
    LET qname == ToLower(q.Name)
        got == GetRecords(d, qname)
    IN  IF ZonesMatches(c.Zones, qname) = <<>> THEN Forward(nxt)
        ELSE IF ~HasPrefix(qname, AcmeChallenge) THEN Forward(nxt)
        ELSE IF got.err # Nil
        THEN IF got.err = ErrRecordNotFound
             THEN IF FallThrough(c.Fall, qname) THEN [Forward(nxt) EXCEPT !.lookup = TRUE]
                  ELSE Return(RcodeNameError, Nil)
             ELSE Return(RcodeServerFailure, got.err)
        ELSE IF q.Qtype # "TXT" /\ q.Qtype # "ANY" THEN Reply(<<>>)
        ELSE Reply(<<[TXT(qname, got.val[1]) EXCEPT !.Txt = got.val]>>)

\* ServeDNS with every error of the lookup taken for not-found
ServeDNSAnyErrorNotFound(d, c, q, nxt) ==
    LET qname == ToLower(q.Name)
        got == GetRecords(d, qname)
    IN  IF ZonesMatches(c.Zones, qname) = <<>> THEN Forward(nxt)
        ELSE IF ~HasPrefix(qname, AcmeChallenge) THEN Forward(nxt)
        ELSE IF got.err # Nil
        THEN IF FallThrough(c.Fall, qname) THEN [Forward(nxt) EXCEPT !.lookup = TRUE]
             ELSE Return(RcodeNameError, Nil)
        ELSE IF q.Qtype # "TXT" /\ q.Qtype # "ANY" THEN Reply(<<>>)
        ELSE Reply([i \in 1..Len(got.val) |-> TXT(qname, got.val[i])])

\* ServeDNS with the lookup made before the name is tested for the
\* challenge label
ServeDNSLookupFirst(d, c, q, nxt) ==
    LET qname == ToLower(q.Name)
        got == GetRecords(d, qname)
    IN  IF ZonesMatches(c.Zones, qname) = <<>> THEN Forward(nxt)
        ELSE IF got.err # Nil
        THEN IF got.err = ErrRecordNotFound
             THEN IF FallThrough(c.Fall, qname) THEN [Forward(nxt) EXCEPT !.lookup = TRUE]
                  ELSE Return(RcodeNameError, Nil)
             ELSE Return(RcodeServerFailure, got.err)
        ELSE IF ~HasPrefix(qname, AcmeChallenge) THEN [Forward(nxt) EXCEPT !.lookup = TRUE]
        ELSE IF q.Qtype # "TXT" /\ q.Qtype # "ANY" THEN Reply(<<>>)
        ELSE Reply([i \in 1..Len(got.val) |-> TXT(qname, got.val[i])])

ServeDNS(d, c, q, nxt) ==
    LET qname == ToLower(q.Name)
        got == GetRecords(d, qname)
    IN  IF ZonesMatches(c.Zones, qname) = <<>> THEN Forward(nxt)
        ELSE IF ~HasPrefix(qname, AcmeChallenge) THEN Forward(nxt)
        ELSE IF got.err # Nil
        THEN IF got.err = ErrRecordNotFound
             THEN IF FallThrough(c.Fall, qname) THEN [Forward(nxt) EXCEPT !.lookup = TRUE]
                  ELSE Return(RcodeNameError, Nil)
             ELSE Return(RcodeServerFailure, got.err)
        ELSE IF q.Qtype # "TXT" /\ q.Qtype # "ANY" THEN Reply(<<>>)
        ELSE Reply([i \in 1..Len(got.val) |-> TXT(qname, got.val[i])])

(***************************************************************************)
(* The served configuration: zones e. and o., fallthrough for e. only,     *)
(* no global allow-list, and three account directives                     *)
(***************************************************************************)

ZoneE == <<"e",".">>

ZoneO == <<"o",".">>

ZoneBE == <<"b",".","e",".">>

\* a zone whose first label is the one character '_'
ZoneWild == <<"_",".","e",".">>

NameE == AcmeChallenge \o ZoneE

NameBE == AcmeChallenge \o ZoneBE

\* a name of zone e. that has NameE and a ':' as its first characters
NameColon == NameE \o <<":","x",".","e",".">>

\* zone o., written without the final dot and with a capital
NameORaw == <<"_","A","c","m","e","-","c","h","a","l","l","e","n","g","e",".","o">>

NameO == AcmeChallenge \o ZoneO

\* NameO as a question may carry it: fully qualified, with a capital
NameOCaps == NameORaw \o <<".">>

\* a name of no served zone
NameQ == AcmeChallenge \o <<"q",".">>

\* a name of zone e. that is no challenge name
NameWWW == <<"w",".","e",".">>

ValueA == [i \in 1..TXT_LENGTH |-> "A"]

ValueB == [i \in 1..TXT_LENGTH |-> IF i = 1 THEN "-" ELSE "b"]

UserU == <<"u">>

UserW == <<"w">>

Pw1 == <<"p","1">>

Pw2 == <<"p","2">>

Pw3 == <<"p","3">>

Net10 == <<"1","0",".","0",".","0",".","0","/","2","4">>

Ip10 == <<"1","0",".","0",".","0",".","5">>

\* [10.0.0.0]/8 : isValidCIDR accepts it, net.ParseCIDR does not
NetBracket == <<"[","1","0",".","0",".","0",".","0","]","/","8">>

Ip9 == <<"9",".","9",".","9",".","9">>

Port == <<":","5","3">>

\* account u p1 b.e. 10.0.0.0/24 ; account u p2 e. ; account w p3 _.e. ; account w p3 o.
Corefiles ==
    {<<Account(UserU, Pw1, ZoneBE, <<Net10>>), acc, Account(UserW, Pw3, ZoneO, <<>>)>> :
        acc \in {Account(UserU, Pw2, ZoneE, <<>>), Account(UserW, Pw3, ZoneWild, <<>>)}}

\* the defaults of parse, with require_auth set or not
Config(requireAuth) ==
    [Zones |-> <<ZoneE, ZoneO>>, Fall |-> <<ZoneE>>, AllowedIPs |-> <<>>,
     ExtractIPFromHeader |-> <<>>, RequireAuth |-> requireAuth]

\* parse: the accounts of the configuration, hashed and registered in order;
\* err # Nil is the error parse returns
RECURSIVE RegisterAll(_, _)
RegisterAll(d, accounts) ==
    IF accounts = <<>> THEN [db |-> d, err |-> Nil]
    ELSE LET res == RegisterAccount(d, Head(accounts), Hash(Head(accounts).Password))
         IN  IF res.err # Nil THEN res ELSE RegisterAll(res.db, Tail(accounts))

OpenDB(kind, readOnly) ==
    CASE kind = "mem"    -> NewMemDB
      [] kind = "sqlite" -> NewSQLiteDBWithROOption(readOnly)
      [] kind = "badger" -> NewBadgerDBWithROOption(readOnly)

\* NewSQLiteDBWithROOption / NewBadgerDBWithROOption on the path of a store
\* that exists: a new handle on what disk holds
OpenAt(disk, readOnly) ==
    CASE disk.kind = "sqlite" ->
           [NewSQLiteDBWithROOption(readOnly) EXCEPT !.records = disk.records,
                                                     !.accounts = disk.accounts]
      [] disk.kind = "badger" -> [NewBadgerDBWithROOption(readOnly) EXCEPT !.kv = disk.kv]
      [] OTHER -> disk

Kinds == {"mem", "sqlite", "badger"}

NoLast == [op |-> "none"]

Init ==
    /\ \E kind \in Kinds, accounts \in Corefiles :
          /\ RegisterAll(OpenDB(kind, FALSE), accounts).err = Nil
          /\ db = RegisterAll(OpenDB(kind, FALSE), accounts).db
    /\ cfg \in {Config(ra) : ra \in BOOLEAN}
    /\ last = NoLast
    /\ live = {}
    /\ presented = {}
    /\ calls = NoCalls

(***************************************************************************)
(* Requests                                                                *)
(***************************************************************************)

Body(fqdn, value) == [kind |-> "json", fqdn |-> fqdn, value |-> value]

NoBody == [kind |-> "none", fqdn |-> <<>>, value |-> <<>>]

Malformed == [kind |-> "malformed", fqdn |-> <<>>, value |-> <<>>]

Request(addr, basic, apiUser, apiKey, body) ==
    [RemoteAddr |-> addr, ipHeader |-> <<>>, basic |-> basic,
     apiUser |-> apiUser, apiKey |-> apiKey, body |-> body]

\* no credentials, Basic-Auth u:p1, Basic-Auth u:p2, X-Api-User w with X-Api-Key p3
Creds ==
    {<< <<>>, <<>>, <<>> >>, << <<UserU, Pw1>>, <<>>, <<>> >>,
     << <<UserU, Pw2>>, <<>>, <<>> >>, << <<>>, UserW, Pw3 >>}

\* every credential with two values for NameE and one for NameBE, two
\* credentials with the other names, all from 10.0.0.5; then one request
\* for each of the other gates of Auth
Requests ==
    {Request(Ip10 \o Port, cr[1], cr[2], cr[3], b) :
        cr \in Creds, b \in {Body(NameE, ValueA), Body(NameE, ValueB), Body(NameBE, ValueA)}}
    \cup {Request(Ip10 \o Port, cr[1], cr[2], cr[3], b) :
             cr \in {<< <<UserU, Pw2>>, <<>>, <<>> >>, << <<>>, UserW, Pw3 >>},
             b \in {Body(NameColon, ValueA), Body(NameORaw, ValueA)}}
    \cup {Request(Ip9 \o Port, <<UserU, Pw1>>, <<>>, <<>>, Body(NameBE, ValueA)),
          Request(Ip10, <<UserU, Pw1>>, <<>>, <<>>, Body(NameBE, ValueA))}
    \cup {Request(Ip10 \o Port, <<UserU, Pw2>>, <<>>, <<>>, b) :
             b \in {NoBody, Malformed, Body(NameQ, ValueA), Body(NameE, [ValueA EXCEPT ![2] = "+"]),
                    Body(NameE, <<"A", "b", "c">>)}}

\* the challenge names of both zones with three types; b.e.'s name, a name
\* outside the zones and www.e. ; then the outside name with another type
\* and w.o., a name of the zone without fallthrough that is no challenge
Questions ==
    {[Name |-> n, Qtype |-> t] : n \in {NameE, NameOCaps}, t \in {"TXT", "ANY", "A"}}
    \cup {[Name |-> n, Qtype |-> "TXT"] : n \in {NameBE, NameQ, NameWWW}}
    \cup {[Name |-> NameQ, Qtype |-> "ANY"], [Name |-> <<"w", ".", "o", ".">>, Qtype |-> "A"]}

\* what the next plugin of the chain may return
NextResults == {[rcode |-> RcodeSuccess, err |-> Nil], [rcode |-> RcodeServerFailure, err |-> Nil]}

\* the values stored at once are at most MaxStored
MaxStored == 2

Room(fqdn, value) == <<fqdn, value>> \in live \/ Cardinality(live) < MaxStored

(***************************************************************************)
(* One HTTP request to /present or /cleanup, one DNS query                 *)
(***************************************************************************)

HttpLast(op, r, a, h) ==
    [op |-> op, called |-> a.called,
     rejected |-> a.status # 0,
     status |-> IF a.status # 0 THEN a.status ELSE h.status,
     code |-> IF a.status # 0 THEN a.code ELSE h.code,
     authErr |-> a.authErr,
     username |-> IF a.called THEN Credentials(r).username ELSE <<>>,
     password |-> IF a.called THEN Credentials(r).password ELSE <<>>,
     FQDN |-> a.FQDN, Value |-> a.Value, account |-> a.account]

HttpPresent ==
    /\ \E r \in Requests : \E a \in Auth(db, cfg, r) :
          LET h == IF a.called THEN handlePresent(db, a) ELSE [db |-> db, status |-> 0, code |-> ""]
          IN  /\ a.called => Room(a.FQDN, a.Value)
              /\ db' = h.db
              /\ last' = HttpLast("present", r, a, h)
              /\ live' = IF a.called /\ h.status = StatusOK
                         THEN live \cup {<<a.FQDN, a.Value>>} ELSE live
    /\ UNCHANGED <<cfg, presented, calls>>

HttpCleanup ==
    /\ \E r \in Requests : \E a \in Auth(db, cfg, r) :
          LET h == IF a.called THEN handleCleanup(db, a) ELSE [db |-> db, status |-> 0, code |-> ""]
          IN  /\ db' = h.db
              /\ last' = HttpLast("cleanup", r, a, h)
              /\ live' = IF a.called /\ h.status = StatusOK
                         THEN live \ {<<a.FQDN, a.Value>>} ELSE live
    /\ UNCHANGED <<cfg, presented, calls>>

DnsQuery ==
    /\ \E q \in Questions, nxt \in NextResults :
          last' = [op |-> "dns", q |-> q, nxt |-> nxt, res |-> ServeDNS(db, cfg, q, nxt)]
    /\ UNCHANGED <<db, cfg, live, presented, calls>>

Next == HttpPresent \/ HttpCleanup \/ DnsQuery

Spec == Init /\ [][Next]_vars

(***************************************************************************)
(* What the claims speak of                                                *)
(***************************************************************************)

\* the accounts a backend holds
StoredAccounts(d) ==
    CASE d.kind = "mem"    -> {d.accounts[k] : k \in DOMAIN d.accounts}
      [] d.kind = "sqlite" -> {Account(r.username, r.password, r.zone,
                                       IF r.allowfrom # <<>> THEN NewCIDRList(r.allowfrom) ELSE <<>>) :
                                  r \in d.accounts}
      [] d.kind = "badger" -> {d.kv[k] : k \in {j \in DOMAIN d.kv : HasPrefix(j, accountKeyPrefix)}}
      [] d.kind = "error"  -> {}

\* zone is name, or name ends with "." and zone (an ancestor at a label boundary)
Covers(zone, name) == zone = name \/ HasSuffix(name, <<".">> \o zone)

IsHttp(l) == l.op \in {"present", "cleanup"}

\* qname is in, or under, one of the zones fallthrough is configured for
PolicyCovers(c, qname) == \E i \in 1..Len(c.Fall) : IsSubDomain(c.Fall[i], qname)

\* C1: a present/cleanup request the Auth pipeline rejects (a wrong password
\* for an existing account gets 401 "unauthorized") never reaches the wrapped
\* handler, and the store after the request is the store before it.
C1_RejectedLeavesStore ==
    [][(IsHttp(last') /\ last'.rejected) => (~last'.called /\ db' = db)]_vars

\* a wrong password for an existing account was answered 401 while values are stored
C1_Witness ==
    /\ last.op = "present"
    /\ last.rejected /\ last.status = StatusUnauthorized /\ last.code = "unauthorized"
    /\ last.authErr = ErrInvalidUsernameOrPassword
    /\ live # {}

\* C2: with authentication required the handler is invoked for F only if F
\* is in an authoritative zone and a stored account of the caller's username
\* has a zone that is F or an ancestor of F at a label boundary, with a digest
\* the caller's password verifies against.
C2_OnlyWithinOwnZone ==
    (IsHttp(last) /\ last.called /\ cfg.RequireAuth) =>
        /\ ZonesMatches(cfg.Zones, last.FQDN) # <<>>
        /\ \E acc \in StoredAccounts(db) :
              /\ acc.Username = last.username
              /\ Covers(acc.Zone, last.FQDN)
              /\ CompareHashAndPassword(acc.Password, last.password)

\* the values presented for qname and not cleaned up since
LiveValues(qname) == {p[2] : p \in {x \in live : x[1] = qname}}

\* C6: a TXT query for a challenge FQDN has one answer for each value that
\* was presented over HTTP and not cleaned up since; with none left it is
\* NXDOMAIN without fallthrough and forwarded with fallthrough.
C6_AnswersAreLiveValues ==
    (last.op = "dns" /\ last.q.Qtype = "TXT"
       /\ ZonesMatches(cfg.Zones, ToLower(last.q.Name)) # <<>>
       /\ HasPrefix(ToLower(last.q.Name), AcmeChallenge)) =>
        LET qname == ToLower(last.q.Name)
            res == last.res
        IN  IF LiveValues(qname) # {}
            THEN /\ res.written /\ res.rcode = RcodeSuccess
                 /\ Len(res.answer) = Cardinality(LiveValues(qname))
                 /\ {res.answer[i].Txt : i \in 1..Len(res.answer)}
                       = {<<v>> : v \in LiveValues(qname)}
            ELSE IF PolicyCovers(cfg, qname)
            THEN res.forwarded
            ELSE ~res.forwarded /\ ~res.written /\ res.rcode = RcodeNameError

\* C9: a TXT or ANY query for a challenge name of an authoritative zone with
\* n >= 1 stored values is answered with success, authoritative, with n TXT
\* answers: answer i has the queried name, TTL 60 and the one string value i.
C9_OneAnswerPerValue ==
    (last.op = "dns" /\ last.q.Qtype \in {"TXT", "ANY"}
       /\ ZonesMatches(cfg.Zones, ToLower(last.q.Name)) # <<>>
       /\ HasPrefix(ToLower(last.q.Name), AcmeChallenge)
       /\ GetRecords(db, ToLower(last.q.Name)).err = Nil) =>
        LET qname == ToLower(last.q.Name)
            stored == GetRecords(db, qname).val
            res == last.res
        IN  /\ Len(stored) >= 1
            /\ res.rcode = RcodeSuccess /\ res.err = Nil
            /\ res.written /\ res.authoritative /\ ~res.forwarded
            /\ Len(res.answer) = Len(stored)
            /\ \A i \in 1..Len(stored) :
                  res.answer[i] =
                      [Name |-> qname, Rrtype |-> "TXT", Ttl |-> 60, Txt |-> <<stored[i]>>]

\* an ANY query was answered with two TXT answers
C9_Witness ==
    /\ last.op = "dns" /\ last.q.Qtype = "ANY"
    /\ last.res.written /\ Len(last.res.answer) = 2
    /\ last.res.answer[1].Txt # last.res.answer[2].Txt

Owned(c, qname) == \E i \in 1..Len(c.Zones) : IsSubDomain(c.Zones[i], qname)

\* C11: a query for a name outside every authoritative zone, or inside one
\* but without the leading label _acme-challenge., is forwarded whatever its
\* type and the fallthrough setting: no storage access, nothing written, and
\* the code and error returned are the next handler's.
C11_OtherNamesForwarded ==
    (last.op = "dns"
       /\ (~Owned(cfg, ToLower(last.q.Name)) \/ ~HasPrefix(ToLower(last.q.Name), AcmeChallenge))) =>
        /\ last.res.forwarded /\ ~last.res.lookup
        /\ ~last.res.written /\ last.res.answer = <<>>
        /\ last.res.rcode = last.nxt.rcode /\ last.res.err = last.nxt.err

\* an A query for w.o. (zone o. has no fallthrough) was forwarded with the
\* SERVFAIL of the next handler while values are stored
C11_Witness ==
    /\ last.op = "dns" /\ last.q.Name = <<"w", ".", "o", ".">> /\ last.q.Qtype = "A"
    /\ last.nxt.rcode = RcodeServerFailure
    /\ last.res.forwarded /\ last.res.rcode = RcodeServerFailure /\ ~last.res.lookup
    /\ live # {}

\* C12: a query of a type other than TXT and ANY for a challenge name of an
\* authoritative zone is answered with an authoritative success and an empty
\* answer section, never forwarded and never NXDOMAIN, whether or not values
\* are stored for the name.
C12_OtherTypesEmptySuccess ==
    (last.op = "dns" /\ last.q.Qtype \notin {"TXT", "ANY"}
       /\ Owned(cfg, ToLower(last.q.Name))
       /\ HasPrefix(ToLower(last.q.Name), AcmeChallenge)) =>
        /\ last.res.written /\ last.res.authoritative
        /\ last.res.rcode = RcodeSuccess /\ last.res.answer = <<>>
        /\ ~last.res.forwarded

\* C16: with require_auth off, a present or cleanup request that passes the
\* global allow-list with a valid body (a name of an authoritative zone, a
\* valid TXT value) is answered with success and updates the record set,
\* credentials or not.
C16_NoAuthStillWrites ==
    (IsHttp(last) /\ ~cfg.RequireAuth /\ last.called) =>
        /\ last.status = StatusOK
        /\ last.op = "present" =>
              (/\ GetRecords(db, last.FQDN).err = Nil
               /\ last.Value \in Range(GetRecords(db, last.FQDN).val))
        /\ last.op = "cleanup" =>
              (GetRecords(db, last.FQDN).err = Nil =>
                  last.Value \notin Range(GetRecords(db, last.FQDN).val))

\* C20: an authorized cleanup request for a value that is not stored under
\* its FQDN is answered 200 on every backend, so the same cleanup request
\* sent twice succeeds twice.
C20_CleanupOfAbsentValueOk ==
    [][(last'.op = "cleanup" /\ last'.called /\ cfg.RequireAuth
          /\ <<last'.FQDN, last'.Value>> \notin live) =>
             last'.status = StatusOK]_vars

(***************************************************************************)
(* The storage interface alone: the calls of db.go on one store, which a   *)
(* persistent backend may close and open again read-only or read-write     *)
(***************************************************************************)

\* f. and a name that has f. and a ':' as its first characters
StoreNames == {<<"f", ".">>, <<"f", ".", ":", "g">>}

StoreValues == {<<"v">>, <<"w">>}

StoreAccount == Account(UserU, Pw1, ZoneE, <<>>)

InitStore ==
    /\ \E kind \in Kinds : db = OpenDB(kind, FALSE)
    /\ cfg = Config(TRUE)
    /\ last = NoLast
    /\ live = {}
    /\ presented = {}
    /\ calls = NoCalls

\* the call, its result, whether the handle was read-only and whether the
\* value was presented before
StoreLast(op, fqdn, value, err, val) ==
    [op |-> op, fqdn |-> fqdn, value |-> value, err |-> err, val |-> val,
     ro |-> db.readOnly, had |-> <<fqdn, value>> \in live]

DbPresent ==
    /\ \E fqdn \in StoreNames, value \in StoreValues :
          LET res == PresentRecord(db, fqdn, value)
          IN  /\ db' = res.db
              /\ last' = StoreLast("present", fqdn, value, res.err, <<>>)
              /\ live' = IF res.err = Nil THEN live \cup {<<fqdn, value>>} ELSE live
              /\ presented' = IF res.err = Nil THEN presented \cup {fqdn} ELSE presented
    /\ UNCHANGED <<cfg, calls>>

DbCleanup ==
    /\ \E fqdn \in StoreNames, value \in StoreValues :
          LET res == CleanupRecord(db, fqdn, value)
          IN  /\ db' = res.db
              /\ last' = StoreLast("cleanup", fqdn, value, res.err, <<>>)
              /\ live' = IF res.err = Nil THEN live \ {<<fqdn, value>>} ELSE live
    /\ UNCHANGED <<cfg, presented, calls>>

DbGetRecords ==
    /\ \E fqdn \in StoreNames :
          LET res == GetRecords(db, fqdn)
          IN  last' = StoreLast("get", fqdn, <<>>, res.err, res.val)
    /\ UNCHANGED <<db, cfg, live, presented, calls>>

DbRegister ==
    /\ LET res == RegisterAccount(db, StoreAccount, Hash(StoreAccount.Password))
       IN  /\ db' = res.db
           /\ last' = StoreLast("register", <<>>, <<>>, res.err, <<>>)
    /\ UNCHANGED <<cfg, live, presented, calls>>

\* Close, then NewSQLiteDBWithROOption / NewBadgerDBWithROOption on the same
\* path with the other mode; the transient backend keeps nothing to reopen
DbReopen ==
    /\ db.kind # "mem"
    /\ db' = OpenAt(db, ~db.readOnly)
    /\ last' = StoreLast("reopen", <<>>, <<>>, Nil, <<>>)
    /\ UNCHANGED <<cfg, live, presented, calls>>

NextStore == DbPresent \/ DbCleanup \/ DbGetRecords \/ DbRegister \/ DbReopen

SpecStore == InitStore /\ [][NextStore]_vars

\* the errors a write on a read-only handle ends with
ReadOnlyErrs == {ErrReadOnlyDatabase, ErrReadOnlyTxn}

\* the same store behind a read-write handle
Writable(d) == OpenAt(d, FALSE)

\* C5: on a handle opened read-only every PresentRecord, CleanupRecord and
\* RegisterAccount fails with the read-only error and changes nothing; closing
\* and reopening changes only the mode, so the store reopened read-write holds
\* what it held before; GetRecords answers on the read-only handle what it
\* answers on a read-write handle of the same store.
C5_ReadOnlyRejectsWrites ==
    [][/\ (db.readOnly /\ last'.op \in {"present", "cleanup", "register"})
            => (last'.err \in ReadOnlyErrs /\ db' = db /\ live' = live)
       /\ (last'.op = "reopen") => Writable(db') = Writable(db)
       /\ \A fqdn \in StoreNames : GetRecords(db', fqdn) = GetRecords(Writable(db'), fqdn)
       /\ (db.readOnly /\ last'.op = "get" /\ LiveValues(last'.fqdn) # {})
            => (last'.err = Nil /\ LiveValues(last'.fqdn) \subseteq Range(last'.val))]_vars

\* a present on a read-only handle failed while the store holds a value and
\* an account
C5_Witness ==
    /\ last.op = "present" /\ last.ro /\ last.err \in ReadOnlyErrs
    /\ live # {} /\ StoredAccounts(db) # {}

\* how often v occurs in the list q
Count(q, v) == Cardinality({i \in 1..Len(q) : q[i] = v})

\* C7: a PresentRecord(f, v) on a read-write handle for a value presented
\* before succeeds, and after every successful PresentRecord(f, v) GetRecords(f)
\* holds v exactly once and the values it held before.
C7_PresentIdempotent ==
    [][(last'.op = "present" /\ ~db.readOnly) =>
          LET f == last'.fqdn
              v == last'.value
              before == GetRecords(db, f)
              after == GetRecords(db', f)
          IN  /\ last'.had => last'.err = Nil
              /\ last'.err = Nil =>
                    /\ after.err = Nil
                    /\ Count(after.val, v) = 1
                    /\ Range(after.val) = Range(before.val) \cup {v}
              /\ (last'.had /\ before.err = Nil /\ Count(before.val, v) = 1) =>
                    Range(after.val) = Range(before.val)]_vars

\* the same value was presented again with another value stored for the name
C7_Witness ==
    /\ last.op = "present" /\ last.had /\ last.err = Nil /\ ~last.ro
    /\ Len(GetRecords(db, last.fqdn).val) = 2

\* C8: GetRecords never succeeds with an empty list, and for a name with no
\* value presented, or with every presented value cleaned up, it returns
\* ErrRecordNotFound and no list.
C8_NotFoundNotEmpty ==
    (last.op = "get") =>
        /\ last.err = Nil => Len(last.val) > 0
        /\ LiveValues(last.fqdn) = {} => (last.err = ErrRecordNotFound /\ last.val = <<>>)

\* C19: on a read-write handle CleanupRecord(f, v) returns no error when f
\* was never presented, on every backend; when f has values and v is not
\* one of them, the transient backend returns "value not found" and the
\* relational and key-value backends return success, and the store is left
\* as it was.
C19_CleanupOfAbsentValue ==
    [][(last'.op = "cleanup" /\ ~db.readOnly) =>
          LET f == last'.fqdn
              v == last'.value
              before == GetRecords(db, f)
          IN  /\ f \notin presented => (last'.err = Nil /\ db' = db)
              /\ (before.err = Nil /\ v \notin Range(before.val)) =>
                    /\ last'.err = IF db.kind = "mem" THEN ErrValueNotFound ELSE Nil
                    /\ db' = db /\ GetRecords(db', f) = before]_vars

\* the transient backend answered "value not found" for a name that holds
\* another value, while a name of the store was never presented
C19_Witness ==
    /\ last.op = "cleanup" /\ db.kind = "mem" /\ last.err = ErrValueNotFound
    /\ GetRecords(db, last.fqdn).err = Nil
    /\ last.value \notin Range(GetRecords(db, last.fqdn).val)
    /\ presented # StoreNames

\* C21: a name whose values were all cleaned up is like a name never
\* presented: GetRecords, PresentRecord and CleanupRecord of any value give
\* the results, and leave the record set, they give on a store that never
\* held the name, on every backend.
C21_EmptiedLikeNeverPresented ==
    \A f \in StoreNames :
        (f \in presented /\ LiveValues(f) = {} /\ ~db.readOnly) =>
            LET never == OpenDB(db.kind, FALSE)
            IN  /\ GetRecords(db, f) = GetRecords(never, f)
                /\ \A v \in StoreValues :
                      /\ CleanupRecord(db, f, v).err = CleanupRecord(never, f, v).err
                      /\ GetRecords(CleanupRecord(db, f, v).db, f)
                            = GetRecords(CleanupRecord(never, f, v).db, f)
                      /\ PresentRecord(db, f, v).err = PresentRecord(never, f, v).err
                      /\ GetRecords(PresentRecord(db, f, v).db, f)
                            = GetRecords(PresentRecord(never, f, v).db, f)

\* C22: a successful PresentRecord(f, v) or CleanupRecord(f, v) changes only
\* whether v is a value of f: the other values of f stay, the accounts stay,
\* and GetRecords(g) answers the same before and after for every other name
\* g, also one that contains ':' or begins with f.
C22_OnlyOneValueChanges ==
    [][(last'.op \in {"present", "cleanup"} /\ last'.err = Nil) =>
          LET f == last'.fqdn
              v == last'.value
          IN  /\ Range(GetRecords(db', f).val) \ {v} = Range(GetRecords(db, f).val) \ {v}
              /\ StoredAccounts(db') = StoredAccounts(db)
              /\ \A g \in StoreNames \ {f} : GetRecords(db', g) = GetRecords(db, g)]_vars

(***************************************************************************)
(* The account calls of the storage interface alone                        *)
(***************************************************************************)

AcctUsers == {UserU, UserW}

\* a., b.a., and a zone under a. whose first label is the one character '_'
AcctZones == {<<"a", ".">>, <<"b", ".", "a", ".">>, <<"_", ".", "a", ".">>}

\* x.b.a. (under b.a. and a.), xb.a. (under a. only), b.a. itself, and c.
LookupNames ==
    {<<"x", ".", "b", ".", "a", ".">>, <<"x", "b", ".", "a", ".">>,
     <<"b", ".", "a", ".">>, <<"c", ".">>}

\* with password p1 and no allow-list, or with p2 and allow-list 10.0.0.0/24
DbRegisterAccount ==
    /\ \E username \in AcctUsers, zone \in AcctZones :
       \E a \in {Account(username, Pw1, zone, <<>>), Account(username, Pw2, zone, <<Net10>>)} :
          LET res == RegisterAccount(db, a, Hash(a.Password))
          IN  /\ db' = res.db
              /\ last' = [op |-> "registerAccount", username |-> username,
                          zone |-> zone, password |-> a.Password, err |-> res.err]
    /\ UNCHANGED <<cfg, live, presented, calls>>

DbGetAccount ==
    /\ \E username \in AcctUsers, name \in LookupNames :
          \E g \in GetAccount(db, username, name) :
             last' = [op |-> "getAccount", username |-> username, name |-> name,
                      err |-> g.err, val |-> g.val]
    /\ UNCHANGED <<db, cfg, live, presented, calls>>

NextAccounts == DbRegisterAccount \/ DbGetAccount

SpecAccounts == InitStore /\ [][NextAccounts]_vars

\* the stored accounts of username whose zone is name or an ancestor of name
Matching(d, username, name) ==
    {acc \in StoredAccounts(d) : acc.Username = username /\ Covers(acc.Zone, name)}

\* the stored accounts of (username, zone)
Stored(d, username, zone) ==
    {acc \in StoredAccounts(d) : acc.Username = username /\ acc.Zone = zone}

\* C24: on the relational backend RegisterAccount for a (username, zone)
\* that is stored fails with an error and leaves the stored account, its
\* digest and its allow-list, as it was; for a pair that is not stored, such
\* as the same username with another zone, it succeeds and adds the account.
C24_DuplicateRegistrationFails ==
    [][(last'.op = "registerAccount" /\ db.kind = "sqlite") =>
          IF Stored(db, last'.username, last'.zone) # {}
          THEN last'.err # Nil /\ StoredAccounts(db') = StoredAccounts(db)
          ELSE /\ last'.err = Nil
               /\ StoredAccounts(db') \ StoredAccounts(db) = Stored(db', last'.username, last'.zone)
               /\ StoredAccounts(db) \subseteq StoredAccounts(db')
               /\ \E acc \in Stored(db', last'.username, last'.zone) :
                     CompareHashAndPassword(acc.Password, last'.password)]_vars

\* u is stored for a. with the digest of p1 and for b.a.; registering (u, a.)
\* with p2 and an allow-list has failed
C24_Witness ==
    /\ last.op = "registerAccount" /\ db.kind = "sqlite" /\ last.err = ErrConstraint
    /\ last.username = UserU /\ last.zone = <<"a", ".">> /\ last.password = Pw2
    /\ Stored(db, UserU, <<"a", ".">>) = {Account(UserU, Hash(Pw1), <<"a", ".">>, <<>>)}
    /\ Stored(db, UserU, <<"b", ".", "a", ".">>) # {}

\* C25: an account that is stored keeps its digest and its allow-list
\* through every later call, a second RegisterAccount of the same (username,
\* zone) with another password or allow-list included, on every backend.
C25_AccountsImmutable ==
    [][StoredAccounts(db) \subseteq StoredAccounts(db')]_vars

\* the transient, the relational and the key-value store that hold accts
AsMem(accts) ==
    [NewMemDB EXCEPT !.accounts =
        [k \in {a.Username \o <<":">> \o a.Zone : a \in accts} |->
            CHOOSE a \in accts : a.Username \o <<":">> \o a.Zone = k]]

AsSQLite(accts) ==
    [NewSQLiteDBWithROOption(FALSE) EXCEPT !.accounts =
        {[username |-> a.Username, password |-> a.Password, zone |-> a.Zone,
          allowfrom |-> CIDRListString(a.AllowedIPs)] : a \in accts}]

AsBadger(accts) ==
    [NewBadgerDBWithROOption(FALSE) EXCEPT !.kv =
        [k \in {makeAccountKey(a.Username, a.Zone) : a \in accts} |->
            CHOOSE a \in accts : makeAccountKey(a.Username, a.Zone) = k]]

\* C23: for the accounts a store holds and every (username, name), the
\* relational backend's query returns the account, or not-found, that the
\* scan of the transient backend and the prefix scan of the key-value
\* backend return, also for zones and names with '_' or '%'.
C23_BackendsAgreeOnGetAccount ==
    (last.op = "getAccount") =>
        LET accts == StoredAccounts(db)
            mem == MemGetAccount(AsMem(accts), last.username, last.name)
        IN  /\ SQLiteGetAccount(AsSQLite(accts), last.username, last.name) = mem
            /\ BadgerGetAccount(AsBadger(accts), last.username, last.name) = mem

\* C3: GetAccount(username, name) returns the account with the longest zone
\* among the stored accounts of username whose zone is name or an ancestor of
\* name, and ErrRecordNotFound when there is none.
C3_LongestMatchOrNotFound ==
    (last.op = "getAccount") =>
        LET matching == Matching(db, last.username, last.name)
        IN  IF matching = {}
            THEN last.err = ErrRecordNotFound
            ELSE /\ last.err = Nil
                 /\ last.val \in matching
                 /\ \A acc \in matching : Len(acc.Zone) <= Len(last.val.Zone)

\* C4: an account GetAccount returns has the requested username and a zone
\* that is the queried name or a suffix of it that starts at a label boundary.
C4_ReturnedAccountCovers ==
    (last.op = "getAccount" /\ last.err = Nil) =>
        /\ last.val.Username = last.username
        /\ Covers(last.val.Zone, last.name)

(***************************************************************************)
(* The gates of Auth and the faults of the store: Auth around a handler    *)
(* that answers 200 (TestAuth), and ServeDNS, on a store with the accounts *)
(* of the configuration (or with "account w p3" without zone and           *)
(* "account w p1 o.") or on errorDB, under every combination of            *)
(* allowfrom, extract_ip_from_header and require_auth                      *)
(***************************************************************************)

\* allowfrom 10.0.0.0/24 or none, extract_ip_from_header X-Forwarded-For or
\* none, require_auth true or false; and allowfrom [10.0.0.0]/8 with the
\* header
Configs ==
    {[Config(ra) EXCEPT !.AllowedIPs = ips, !.ExtractIPFromHeader = h] :
        ra \in BOOLEAN, ips \in {<<>>, <<Net10>>},
        h \in {<<>>, <<"X", "-", "F", "o", "r", "w", "a", "r", "d", "e", "d", "-", "F", "o", "r">>}}
    \cup {[Config(ra) EXCEPT !.AllowedIPs = <<NetBracket>>,
                             !.ExtractIPFromHeader = <<"X", "-", "F", "o", "r", "w", "a", "r", "d", "e", "d", "-", "F", "o", "r">>] :
             ra \in BOOLEAN}

InitGates ==
    /\ \/ \E kind \in Kinds,
             accounts \in Corefiles \cup {<<Account(UserW, Pw3, <<>>, <<>>),
                                             Account(UserW, Pw1, ZoneO, <<>>)>>} :
             /\ RegisterAll(OpenDB(kind, FALSE), accounts).err = Nil
             /\ db = RegisterAll(OpenDB(kind, FALSE), accounts).db
       \/ db \in {errorDB(ErrDatabase), errorDB(ErrRecordNotFound)}
    /\ cfg \in Configs
    /\ last = NoLast
    /\ live = {}
    /\ presented = {}
    /\ calls = NoCalls

\* from 10.0.0.5 and from 9.9.9.9 : u with the passwords of its two accounts
\* and with w's, w, a username no account has, and no credentials, for the
\* name under b.e.; u and the unknown username for the name under e.;
\* requests without a body; a peer address without a port; an X-Forwarded-For header that
\* names 10.0.0.5 first, and a blank one
GateRequests ==
    {Request(ip \o Port, <<un, pw>>, <<>>, <<>>, Body(NameBE, ValueA)) :
        ip \in {Ip10, Ip9},
        un \in {UserU}, pw \in {Pw1, Pw2, Pw3}}
    \cup {Request(ip \o Port, <<>>, un, pw, Body(NameBE, ValueA)) :
             ip \in {Ip10, Ip9}, un \in {UserW, <<"n">>, <<>>}, pw \in {Pw3}}
    \cup {Request(Ip10 \o Port, <<un, pw>>, <<>>, <<>>, Body(NameE, ValueA)) :
             un \in {UserU, <<"n">>}, pw \in {Pw2, Pw3}}
    \cup {Request(ip \o Port, <<UserU, Pw1>>, <<>>, <<>>, NoBody) : ip \in {Ip10, Ip9}}
    \cup {Request(Ip10, <<UserU, Pw1>>, <<>>, <<>>, b) : b \in {NoBody, Body(NameBE, ValueA)}}
    \cup {[Request(Ip9 \o Port, <<UserU, pw>>, <<>>, <<>>, Body(NameBE, ValueA)) EXCEPT !.ipHeader = h] :
             pw \in {Pw1, Pw3},
             h \in {Ip10 \o <<",", " ">> \o Ip9, <<" ">>, <<" ", ",", " ">> \o Ip10 \o <<" ">>}}
    \cup {[Request(Ip9 \o Port, <<UserU, Pw2>>, <<>>, <<>>, Body(NameE, ValueA)) EXCEPT !.ipHeader = NetBracket]}
    \cup {Request(Ip10 \o Port, cr[1], cr[2], cr[3], Body(NameBE, ValueA)) :
             cr \in {<< <<UserU, Pw1>>, UserW, Pw3 >>, << <<<<>>, Pw1>>, UserU, Pw1 >>,
                     << <<>>, UserU, <<>> >>, << <<>>, UserU, Pw1 >>}}
    \cup {Request(Ip10 \o Port, <<UserU, Pw3>>, <<>>, <<>>, b) :
             b \in {Malformed, Body(NameQ, <<"a", "b", "c">>), Body(NameBE, <<"a", "b", "c">>)}}

\* the values of TestIsValidTXT (with "@" for the null byte), values one
\* character short and one long, and 43-character values with one character
\* next to the ranges A-Z, a-z and 0-9
TxtValues ==
    LET valid == LowerAlpha \o Digits \o <<"-", "_", "=">> \o SubSeq(UpperAlpha, 1, 4)
    IN  {valid, <<"a", "b", "c">>, valid \o <<"E", "F">>,
         [valid EXCEPT ![37] = "+", ![38] = "/"], <<>>, <<"@">>,
         SubSeq(valid, 1, TXT_LENGTH - 1), valid \o <<"E">>}
        \cup {[valid EXCEPT ![i] = ch] : i \in {1, TXT_LENGTH},
                                          ch \in {"+", "/", "@", "[", "^", "{", ":", " ", "."}}

\* u with its password from 10.0.0.5 for the name under b.e., with each value
TxtRequests ==
    {Request(Ip10 \o Port, <<UserU, Pw1>>, <<>>, <<>>, Body(NameBE, v)) : v \in TxtValues}

\* a.Auth(testHandler)(rec, req): the request, the client IP Auth resolves,
\* the outcome of Auth, and the status the caller sees
AuthGate ==
    /\ \E r \in GateRequests \cup TxtRequests : \E a \in Auth(db, cfg, r) :
          last' = [op |-> "auth", r |-> r,
                   clientIP |-> getClientIP(r, cfg.ExtractIPFromHeader),
                   out |-> a,
                   status |-> IF a.called THEN StatusOK ELSE a.status]
    /\ UNCHANGED <<db, cfg, live, presented, calls>>

SpecGates == InitGates /\ [][AuthGate \/ DnsQuery]_vars

\* C13: when the lookup for an owned challenge name fails with an error
\* other than not-found, ServeDNS returns SERVFAIL with that same error,
\* writes no answer and does not forward, fallthrough or not.
C13_StorageErrorServfail ==
    (last.op = "dns"
       /\ Owned(cfg, ToLower(last.q.Name))
       /\ HasPrefix(ToLower(last.q.Name), AcmeChallenge)
       /\ GetRecords(db, ToLower(last.q.Name)).err \notin {Nil, ErrRecordNotFound}) =>
        /\ last.res.rcode = RcodeServerFailure
        /\ last.res.err = GetRecords(db, ToLower(last.q.Name)).err
        /\ ~last.res.written /\ last.res.answer = <<>>
        /\ ~last.res.forwarded

\* the lookup for the challenge name of e. (fallthrough configured) failed
\* with "database error" and the answer was SERVFAIL with that error, while
\* the next handler would have returned success
C13_Witness ==
    /\ last.op = "dns" /\ last.q.Name = NameE /\ db.kind = "error"
    /\ PolicyCovers(cfg, NameE)
    /\ last.nxt.rcode = RcodeSuccess
    /\ last.res.rcode = RcodeServerFailure /\ last.res.err = ErrDatabase
    /\ ~last.res.forwarded

\* the results of the account lookup for the credentials and the name of r
Resolved(r) == getAccountFromRequestAndSubdomain(db, cfg, r, CanonicalName(r.body.fqdn))

\* r comes from an admitted client IP with a body that names a name of an
\* authoritative zone and a valid TXT value
ReachesAccountGate(c, r, clientIP) ==
    /\ clientIP # <<>> /\ CIDRContains(c.AllowedIPs, clientIP)
    /\ r.body.kind = "json"
    /\ Owned(c, CanonicalName(r.body.fqdn))
    /\ isValidTXT(r.body.value)

\* the allow-list of acc is not empty and has no entry that holds ip
Excludes(acc, ip) == Len(acc.AllowedIPs) > 0 /\ ~CIDRContains(acc.AllowedIPs, ip)

Forbidden(l) == l.status = StatusForbidden /\ l.out.code = "forbidden_ip"

\* C14: with authentication required, a request with valid credentials that
\* has passed the global allow-list and the body checks is rejected with 403
\* "forbidden_ip" exactly when the allow-list of the resolved account is not
\* empty and excludes the client IP; otherwise, and so for every account
\* with an empty allow-list, the handler is called with the resolved account.
C14_AccountAllowList ==
    (last.op = "auth" /\ cfg.RequireAuth
       /\ ReachesAccountGate(cfg, last.r, last.clientIP)
       /\ \A g \in Resolved(last.r) : g.err = Nil) =>
        /\ Forbidden(last) =>
              (~last.out.called /\ \E g \in Resolved(last.r) : Excludes(g.val, last.clientIP))
        /\ ~Forbidden(last) =>
              /\ last.out.called /\ last.out.hasAccount /\ last.status = StatusOK
              /\ [val |-> last.out.account, err |-> Nil] \in Resolved(last.r)
              /\ ~Excludes(last.out.account, last.clientIP)

\* u's password for b.e. (allow-list 10.0.0.0/24) from 9.9.9.9 was answered
\* 403 although no global allow-list is configured
C14_Witness ==
    /\ last.op = "auth" /\ cfg.RequireAuth /\ cfg.AllowedIPs = <<>>
    /\ last.clientIP = Ip9
    /\ Credentials(last.r) = [username |-> UserU, password |-> Pw1]
    /\ \A g \in Resolved(last.r) : g.err = Nil /\ g.val.AllowedIPs = <<Net10>>
    /\ Forbidden(last)

\* C15: a request whose client IP is empty, or is outside a non-empty global
\* allow-list, is rejected with 403 "forbidden_ip" whatever its body, its
\* credentials and the store; with an empty global allow-list a request with
\* a client IP gets a 403 only from the allow-list of its account.
C15_GlobalAllowList ==
    (last.op = "auth") =>
        /\ (last.clientIP = <<>>
               \/ (Len(cfg.AllowedIPs) > 0 /\ ~CIDRContains(cfg.AllowedIPs, last.clientIP))) =>
              (Forbidden(last) /\ ~last.out.called /\ last.out.authErr = Nil)
        /\ (last.clientIP # <<>> /\ Len(cfg.AllowedIPs) = 0) =>
              /\ last.r.body.kind = "none" =>
                    (last.status = StatusBadRequest /\ last.out.code = "no_request_body")
              /\ Forbidden(last) =>
                    /\ cfg.RequireAuth /\ ReachesAccountGate(cfg, last.r, last.clientIP)
                    /\ \E g \in Resolved(last.r) : g.err = Nil /\ Excludes(g.val, last.clientIP)

\* a request without body from 9.9.9.9, outside the global allow-list, on a
\* store whose every call fails: 403, not the 400 of the body check and not
\* the 401 of a failed lookup
C15_Witness ==
    /\ last.op = "auth" /\ cfg.AllowedIPs = <<Net10>> /\ last.clientIP = Ip9
    /\ last.r.body.kind = "none" /\ db.kind = "error"
    /\ Forbidden(last)

\* r with the username un in place of its own
WithUsername(r, un) ==
    IF r.basic # <<>> THEN [r EXCEPT !.basic = <<un, r.basic[2]>>] ELSE [r EXCEPT !.apiUser = un]

\* no stored account of username un covers fqdn
Unknown(un, fqdn) == \A g \in GetAccount(db, un, fqdn) : g.err = ErrRecordNotFound

\* C17: a request with a wrong password for an existing account is answered
\* 401 {"error":"unauthorized"}, and the same request with a username that
\* has no matching account gets the same status and the same body.
C17_UnknownUserLikeWrongPassword ==
    (last.op = "auth" /\ last.out.authErr = ErrInvalidUsernameOrPassword) =>
        /\ last.status = StatusUnauthorized /\ last.out.code = "unauthorized"
        /\ \A un \in {<<"n">>, UserU, UserW} :
              Unknown(un, CanonicalName(last.r.body.fqdn)) =>
                 \A a \in Auth(db, cfg, WithUsername(last.r, un)) :
                    /\ ~a.called
                    /\ a.status = last.status /\ a.code = last.out.code

\* u with w's password for the name under b.e. was answered 401 on a store
\* where w has no account that covers the name
C17_Witness ==
    /\ last.op = "auth" /\ last.out.authErr = ErrInvalidUsernameOrPassword
    /\ Credentials(last.r) = [username |-> UserU, password |-> Pw3]
    /\ last.status = StatusUnauthorized
    /\ Unknown(UserW, CanonicalName(last.r.body.fqdn))
    /\ ~Unknown(UserU, CanonicalName(last.r.body.fqdn))

\* C18: a storage fault (a GetAccount error other than not-found) while
\* Auth resolves the account is answered with a 5xx status, not with 401.
C18_StorageFaultIs5xx ==
    (last.op = "auth" /\ last.out.authErr = ErrDatabase) =>
        (last.status \in 500..599 /\ last.status # StatusUnauthorized)

C30_InvalidEntriesNeverGrant ==
    (last.op = "auth" /\ last.clientIP # <<>>) =>
        LET c == cfg.AllowedIPs
            ip == last.clientIP
            invalid(e) == ParseCIDR(e).bits < 0 /\ ParseIP(e) < 0
            inside(e) == /\ ParseCIDR(e).bits >= 0 /\ ParseIP(ip) >= 0
                         /\ NetContains(ParseCIDR(e), ParseIP(ip))
        IN  /\ Len(c) = 0 => CIDRContains(c, ip)
            /\ Len(c) > 0 =>
                  (CIDRContains(c, ip) <=> \E i \in 1..Len(c) : c[i] = ip \/ inside(c[i]))
            /\ (Len(c) > 0 /\ \A i \in 1..Len(c) : invalid(c[i])) =>
                  (Forbidden(last) /\ ~last.out.called /\ last.out.authErr = Nil)

\* C31: with a header name configured, the client IP is the first entry of
\* the header's comma-separated value that is not blank, without the spaces
\* around it, and is empty when the header is absent or has only blank
\* entries, whatever the peer address; with no header name configured it is
\* the host before the ':' of the peer address, and empty when the peer
\* address has no port.
C31_ClientIP ==
    (last.op = "auth") =>
        LET h == last.r.ipHeader
            entries == Split(h, ",")
            blank(e) == \A i \in 1..Len(e) : e[i] = " "
            peer == last.r.RemoteAddr
        IN  /\ cfg.ExtractIPFromHeader # <<>> =>
                  IF \A k \in 1..Len(entries) : blank(entries[k])
                  THEN last.clientIP = <<>>
                  ELSE \E k \in 1..Len(entries) :
                          /\ \A j \in 1..(k - 1) : blank(entries[j])
                          /\ ~blank(entries[k])
                          /\ \E l, t \in 0..Len(entries[k]) :
                                /\ entries[k] = [i \in 1..l |-> " "] \o last.clientIP \o [i \in 1..t |-> " "]
                                /\ last.clientIP[1] # " "
                                /\ last.clientIP[Len(last.clientIP)] # " "
            /\ cfg.ExtractIPFromHeader = <<>> =>
                  IF ":" \in Range(peer)
                  THEN \E port \in {Port} : peer = last.clientIP \o port
                  ELSE last.clientIP = <<>>

\* the header " , 10.0.0.5 " of a request from 9.9.9.9 gave the client IP
\* 10.0.0.5, which the global allow-list 10.0.0.0/24 let through
C31_Witness ==
    /\ last.op = "auth" /\ cfg.ExtractIPFromHeader # <<>>
    /\ last.r.ipHeader = <<" ", ",", " ">> \o Ip10 \o <<" ">>
    /\ SplitHostPort(last.r.RemoteAddr) = Ip9
    /\ last.clientIP = Ip10 /\ cfg.AllowedIPs = <<Net10>> /\ ~Forbidden(last)

\* C32: the answer of Auth is that of the first gate that fails, in the
\* order global allow-list (403 forbidden_ip), body present (400
\* no_request_body), JSON (400 invalid_request), name in a zone (400
\* invalid_subdomain), TXT value (400 invalid_txt_record), and with
\* authentication required credentials (401 unauthorized) and the account's
\* allow-list (403 forbidden_ip, only after the credentials verified); a
\* rejected request never reaches the handler and a request that reaches the
\* handler got no error from Auth.
C32_FirstFailingGate ==
    (last.op = "auth") =>
        LET r == last.r
            is(status, code) ==
                ~last.out.called /\ last.status = status /\ last.out.code = code
        IN  /\ IF last.clientIP = <<>> \/ ~CIDRContains(cfg.AllowedIPs, last.clientIP)
               THEN is(StatusForbidden, "forbidden_ip") /\ last.out.authErr = Nil
               ELSE IF r.body.kind = "none" THEN is(StatusBadRequest, "no_request_body")
               ELSE IF r.body.kind = "malformed" THEN is(StatusBadRequest, "invalid_request")
               ELSE IF ~Owned(cfg, CanonicalName(r.body.fqdn))
               THEN is(StatusBadRequest, "invalid_subdomain")
               ELSE IF ~isValidTXT(r.body.value) THEN is(StatusBadRequest, "invalid_txt_record")
               ELSE IF ~cfg.RequireAuth THEN last.out.called
               ELSE \E g \in Resolved(r) :
                       IF g.err # Nil
                       THEN is(StatusUnauthorized, "unauthorized") /\ last.out.authErr = g.err
                       ELSE IF Excludes(g.val, last.clientIP)
                       THEN is(StatusForbidden, "forbidden_ip")
                       ELSE last.out.called /\ last.out.account = g.val
            /\ last.out.called <=> (last.out.code = "" /\ last.status = StatusOK)

\* a name outside the zones with a three-character value and a wrong
\* password, from an admitted address: the answer is that of the zone gate
C32_Witness ==
    /\ last.op = "auth" /\ cfg.RequireAuth
    /\ ~Owned(cfg, CanonicalName(last.r.body.fqdn)) /\ last.r.body.kind = "json"
    /\ Len(last.r.body.value) = 3
    /\ \A g \in Resolved(last.r) : g.err # Nil
    /\ last.status = StatusBadRequest /\ last.out.code = "invalid_subdomain"

\* C33: with authentication required, the outcome of Auth for a request is
\* the outcome for the same request carrying its username and password as
\* Basic-Auth only, and the same as for it carrying them as X-Api-User and
\* X-Api-Key only, where its username and password are those of Basic-Auth
\* when it has Basic-Auth and those of the header pair otherwise; an empty
\* username or password is answered 401 for "no authentication credentials"
\* even on a store whose every call fails.
C33_BasicOrHeaderPair ==
    (last.op = "auth" /\ cfg.RequireAuth) =>
        LET r == last.r
            un == IF r.basic # <<>> THEN r.basic[1] ELSE r.apiUser
            pw == IF r.basic # <<>> THEN r.basic[2] ELSE r.apiKey
            asBasic == [r EXCEPT !.basic = <<un, pw>>, !.apiUser = <<>>, !.apiKey = <<>>]
            asHeaders == [r EXCEPT !.basic = <<>>, !.apiUser = un, !.apiKey = pw]
        IN  /\ Auth(db, cfg, asBasic) = Auth(db, cfg, asHeaders)
            /\ last.out \in Auth(db, cfg, asBasic)
            /\ (ReachesAccountGate(cfg, r, last.clientIP) /\ (un = <<>> \/ pw = <<>>)) =>
                  /\ last.status = StatusUnauthorized /\ ~last.out.called
                  /\ last.out.authErr = ErrNoAuthenticationCredentials

\* Basic-Auth u:p1 together with the header pair w/p3: the handler was
\* called with the account of u for b.e., the header pair was not consulted
C33_Witness ==
    /\ last.op = "auth" /\ cfg.RequireAuth
    /\ last.r.basic = <<UserU, Pw1>> /\ last.r.apiUser = UserW /\ last.r.apiKey = Pw3
    /\ last.out.called /\ last.out.account.Username = UserU
    /\ last.out.account.Password = Hash(Pw1)

\* C38: with authentication required, a request that reaches the account
\* gate with a username that has stored accounts covering the name is
\* judged by the one with the longest zone alone: a password that is not
\* that account's gets 401 even when it is the password of another covering
\* account, and with that account's password the request gets 403 exactly
\* when that account's allow-list excludes the client IP, and otherwise
\* reaches the handler with that account.
C38_LongestMatchOnly ==
    (last.op = "auth" /\ cfg.RequireAuth /\ db.kind # "error"
       /\ ReachesAccountGate(cfg, last.r, last.clientIP)) =>
        LET un == IF last.r.basic # <<>> THEN last.r.basic[1] ELSE last.r.apiUser
            pw == IF last.r.basic # <<>> THEN last.r.basic[2] ELSE last.r.apiKey
            matching == Matching(db, un, CanonicalName(last.r.body.fqdn))
        IN  \A longest \in matching :
               (un # <<>> /\ pw # <<>>
                  /\ \A acc \in matching : Len(acc.Zone) <= Len(longest.Zone)) =>
                  IF longest.Password # Hash(pw)
                  THEN last.status = StatusUnauthorized /\ ~last.out.called
                  ELSE IF Excludes(longest, last.clientIP)
                  THEN Forbidden(last) /\ ~last.out.called
                  ELSE last.out.called /\ last.out.account = longest

\* u has the accounts (p1, b.e., 10.0.0.0/24) and (p2, e.); u:p2 for the
\* challenge name of b.e. from 10.0.0.5 was answered 401
C38_Witness ==
    /\ last.op = "auth" /\ cfg.RequireAuth /\ db.kind # "error"
    /\ ReachesAccountGate(cfg, last.r, last.clientIP)
    /\ last.r.basic = <<UserU, Pw2>> /\ CanonicalName(last.r.body.fqdn) = NameBE
    /\ last.clientIP = Ip10
    /\ Cardinality(Matching(db, UserU, NameBE)) = 2
    /\ \E acc \in Matching(db, UserU, NameBE) : acc.Password = Hash(Pw2)
    /\ last.status = StatusUnauthorized /\ ~last.out.called

\* C39: when the store holds an account without zone, GetAccount of its
\* username finds an account for every name with a trailing dot, on every
\* backend, and finds that account exactly when no account of the username
\* with a zone covers the name; with authentication required a request with
\* its credentials that reaches the account gate for a name no other
\* account of the username covers reaches the handler with that account.
C39_EmptyZoneCoversAll ==
    (last.op = "auth" /\ db.kind # "error") =>
        \A acc \in {a \in StoredAccounts(db) : a.Zone = <<>>} :
           /\ \A name \in {NameE, NameBE, NameO, NameQ, NameWWW, <<".">>} :
                 \A g \in GetAccount(db, acc.Username, name) :
                    /\ g.err = Nil
                    /\ g.val = acc <=> Matching(db, acc.Username, name) = {acc}
           /\ (cfg.RequireAuth /\ ReachesAccountGate(cfg, last.r, last.clientIP)
                 /\ last.r.apiUser = acc.Username /\ last.r.basic = <<>>
                 /\ Hash(last.r.apiKey) = acc.Password
                 /\ Matching(db, acc.Username, CanonicalName(last.r.body.fqdn)) = {acc}) =>
                    (last.out.called /\ last.out.account = acc)

\* w, whose account p3 has no zone and whose other account is for o., sent
\* w/p3 for the challenge name of b.e. and reached the handler
C39_Witness ==
    /\ last.op = "auth" /\ db.kind # "error" /\ cfg.RequireAuth
    /\ \E acc \in StoredAccounts(db) :
          /\ acc.Zone = <<>> /\ acc.Username = UserW
          /\ last.out.called /\ last.out.account = acc
    /\ last.r.apiUser = UserW /\ last.r.apiKey = Pw3
    /\ CanonicalName(last.r.body.fqdn) = NameBE
    /\ Matching(db, UserW, NameO) # Matching(db, UserW, NameBE)

(***************************************************************************)
(* Registration over the API: POST /register on an empty store of each     *)
(* backend, and Auth with the accounts it has stored                       *)
(***************************************************************************)

\* u with p1 or p2 for e., E (no trailing dot, upper case) and q. (no
\* authoritative zone), with no allow-list, 10.0.0.0/24, or an entry that is
\* neither address nor range; requests with one field empty; no body; a
\* body that is no JSON
RegisterRequests ==
    {[kind |-> "json", Username |-> UserU, Password |-> pw, Zone |-> z, AllowFrom |-> ips] :
        pw \in {Pw1, Pw2}, z \in {ZoneE, <<"E">>, <<"q", ".">>},
        ips \in {<<>>, <<Net10>>, <<Net10, <<"1", "0", ".", "0", ".", "0", ".", "2", "5", "6">>>>}}
    \cup {[kind |-> "json", Username |-> f[1], Password |-> f[2], Zone |-> f[3], AllowFrom |-> <<>>] :
             f \in {<< <<>>, Pw1, ZoneE >>, << UserU, <<>>, ZoneE >>, << UserU, Pw1, <<>> >>}}
    \cup {[kind |-> k, Username |-> <<>>, Password |-> <<>>, Zone |-> <<>>, AllowFrom |-> <<>>] :
             k \in {"none", "malformed"}}

HttpRegister ==
    /\ \E r \in RegisterRequests :
          LET h == handleRegister(db, cfg, r)
          IN  /\ db' = h.db
              /\ last' = [op |-> "register", r |-> r, status |-> h.status, code |-> h.code]
    /\ UNCHANGED <<cfg, live, presented, calls>>

SpecRegister == InitStore /\ [][HttpRegister \/ AuthGate]_vars

\* the registration request r is one the handler has to refuse
Refused(c, r) ==
    \/ r.kind # "json"
    \/ r.Username = <<>> \/ r.Password = <<>> \/ r.Zone = <<>>
    \/ ~Owned(c, CanonicalName(r.Zone))
    \/ \E i \in 1..Len(r.AllowFrom) :
          ParseIP(r.AllowFrom[i]) < 0 /\ ParseCIDR(r.AllowFrom[i]).bits < 0

\* the account of r is stored in d under the canonical zone, with r's allow-list
Registered(d, r) ==
    \E acc \in Stored(d, r.Username, CanonicalName(r.Zone)) : acc.AllowedIPs = r.AllowFrom

parseReadWrite(c, disk) ==
    LET apiEnabled == c.endpoint # <<>>
        dbType == IF c.dbType = "" THEN "badger" ELSE c.dbType
        opened == OpenAt(disk, FALSE)
    IN  IF dbType \notin {"sqlite", "badger"}
        THEN [db |-> disk, err |-> "unknown database type"]
        ELSE IF apiEnabled THEN RegisterAll(opened, c.accounts)
        ELSE [db |-> opened, err |-> Nil]

\* parse for the block c = [endpoint, dbType, accounts] and the store disk at
\* the path of its db directive: [db, err]
parse(c, disk) ==
    LET apiEnabled == c.endpoint # <<>>
        dbType == IF c.dbType = "" THEN "badger" ELSE c.dbType
        opened == OpenAt(disk, ~apiEnabled)
    IN  IF dbType \notin {"sqlite", "badger"}
        THEN [db |-> disk, err |-> "unknown database type"]
        ELSE IF apiEnabled THEN RegisterAll(opened, c.accounts)
        ELSE [db |-> opened, err |-> Nil]

\* Startup : whether the API server is started
Startup(APIAddr) == APIAddr # <<>>

\* with and without endpoint, with the accounts of a configuration or none;
\* the db directive names the store at hand, is absent (badger), or names
\* the type "memory"
SetupCorefiles(kind) ==
    {[endpoint |-> e, dbType |-> t, accounts |-> accs] :
        e \in {<<>>, <<":", "8", "0">>},
        t \in {kind, "memory"} \cup (IF kind = "badger" THEN {""} ELSE {}),
        accs \in Corefiles \cup {<<>>}}

Setup ==
    /\ \E c \in SetupCorefiles(IF db.kind = "mem" THEN "memory" ELSE db.kind) :
          LET res == parse(c, db)
          IN  /\ db' = res.db
              /\ last' = [op |-> "parse", c |-> c, err |-> res.err,
                          serving |-> res.err = Nil /\ Startup(c.endpoint)]
    /\ UNCHANGED <<cfg, live, presented, calls>>

SpecSetup == InitStore /\ [][Setup \/ DnsQuery]_vars

\* C28: when parse succeeds, the store is open read-only exactly when the
\* block has no endpoint; without endpoint the account directives are not
\* registered and Startup starts no API server; with an endpoint the store
\* is open read-write, every account of the block is stored with the digest
\* of its password, and the API server is started.
C28_ReadOnlyIffNoEndpoint ==
    [][(last'.op = "parse" /\ last'.err = Nil) =>
          LET c == last'.c
          IN  /\ db'.readOnly <=> c.endpoint = <<>>
              /\ c.endpoint = <<>> =>
                    (StoredAccounts(db') = StoredAccounts(db) /\ ~last'.serving)
              /\ c.endpoint # <<>> =>
                    /\ last'.serving
                    /\ \A i \in 1..Len(c.accounts) :
                          [c.accounts[i] EXCEPT !.Password = Hash(c.accounts[i].Password)]
                              \in StoredAccounts(db')]_vars

\* a block with account directives and no endpoint was parsed on a store
\* that holds no account: the store is read-only and still holds none
C28_Witness ==
    /\ last.op = "parse" /\ last.err = Nil
    /\ last.c.endpoint = <<>> /\ last.c.accounts # <<>>
    /\ db.readOnly /\ StoredAccounts(db) = {} /\ ~last.serving

\* C40: when a block with an endpoint and account directives has been
\* parsed with success, parsing the same block again on the same store
\* succeeds too, on the relational and on the key-value backend, and every
\* account of the block is stored with the digest of its password.
C40_SetupRepeatable ==
    [][(last.op = "parse" /\ last.err = Nil /\ last.c.endpoint # <<>>
          /\ last.c.accounts # <<>>
          /\ last'.op = "parse" /\ last'.c = last.c) =>
             /\ last'.err = Nil
             /\ \A i \in 1..Len(last.c.accounts) :
                   [last.c.accounts[i] EXCEPT !.Password = Hash(last.c.accounts[i].Password)]
                       \in StoredAccounts(db')]_vars

(***************************************************************************)
(* Lifecycle of a handle: Close, reads on the closed handle, and the       *)
(* goroutine NewBadgerDBWithROOption starts for the value-log GC           *)
(***************************************************************************)

\* Close: MemDB.Close does nothing; the other two close the engine's handle
Close(d) ==
    CASE d.kind = "mem" -> d
      [] d.kind \in {"sqlite", "badger"} -> [d EXCEPT !.closed = TRUE]

Closed(d) == d.kind \in {"sqlite", "badger"} /\ d.closed

\* a handle, read-write or read-only, on a store that holds the value A
\* under the challenge names of e. and of o., under the first, or nothing
InitLifecycle ==
    /\ \E kind \in Kinds, readOnly \in BOOLEAN, n \in 0..2 :
          LET d0 == OpenDB(kind, FALSE)
              d1 == IF n >= 1 THEN PresentRecord(d0, NameE, ValueA).db ELSE d0
              d2 == IF n >= 2 THEN PresentRecord(d1, ToLower(NameOCaps), ValueA).db ELSE d1
          IN  db = OpenAt(d2, readOnly)
    /\ cfg = Config(TRUE)
    /\ last = NoLast
    /\ live = {}
    /\ presented = {}
    /\ calls = NoCalls

DbClose ==
    /\ db' = Close(db)
    /\ last' = [op |-> "close"]
    /\ UNCHANGED <<cfg, live, presented, calls>>

\* the attempts that succeed in a row are at most MaxGcRuns
MaxGcRuns == 2

\* for range ticker.C : a tick takes the goroutine to the label again
GcTick ==
    /\ db.kind = "badger" /\ db.gc = "waiting"
    /\ db' = [db EXCEPT !.gc = "again"]
    /\ last' = [op |-> "tick", closed |-> db.closed]
    /\ UNCHANGED <<cfg, live, presented, calls>>

\* again: err := db.RunValueLogGC(0.5); if err == nil { goto again } : the
\* attempt rewrites a file (nil), finds nothing to rewrite (ErrNoRewrite) or
\* is rejected (ErrRejected); on a closed handle it does not succeed. n
\* counts the attempts since the tick.
GcAttempt ==
    /\ db.kind = "badger" /\ db.gc = "again"
    /\ LET n == IF last.op = "gc" THEN last.n + 1 ELSE 1
       IN  \E err \in {Nil, "Value log GC attempt didn't result in any cleanup",
                        "Value log GC request rejected"} :
              /\ err = Nil => (~db.closed /\ n <= MaxGcRuns)
              /\ db' = [db EXCEPT !.gc = IF err = Nil THEN "again" ELSE "waiting"]
              /\ last' = [op |-> "gc", err |-> err, n |-> n, closed |-> db.closed]
    /\ UNCHANGED <<cfg, live, presented, calls>>

SpecLifecycle == InitLifecycle /\ [][DbClose \/ DnsQuery \/ GcTick \/ GcAttempt]_vars

\* the values the store holds under fqdn
RecordSet(d, fqdn) ==
    CASE d.kind = "mem" ->
           IF fqdn \in DOMAIN d.records THEN Range(d.records[fqdn]) ELSE {}
      [] d.kind = "sqlite" -> {r[2] : r \in {x \in Range(d.records) : x[1] = fqdn}}
      [] d.kind = "badger" ->
           {Drop(k, Len(makeRecordKey(fqdn, <<>>))) :
               k \in {j \in DOMAIN d.kv : HasPrefix(j, makeRecordKey(fqdn, <<>>))}}

\* C34: GetRecords returns not-found only when the store holds no value
\* under the name and the read itself did not fail; a read on a closed
\* handle returns an error other than not-found, and the DNS query for an
\* owned challenge name is then answered SERVFAIL, not NXDOMAIN and not
\* forwarded.
C34_ReadFailureIsNotNotFound ==
    (last.op = "dns"
       /\ Owned(cfg, ToLower(last.q.Name))
       /\ HasPrefix(ToLower(last.q.Name), AcmeChallenge)) =>
        LET res == GetRecords(db, ToLower(last.q.Name))
        IN  /\ res.err = ErrRecordNotFound =>
                  (~Closed(db) /\ RecordSet(db, ToLower(last.q.Name)) = {})
            /\ Closed(db) =>
                  /\ res.err \notin {Nil, ErrRecordNotFound}
                  /\ last.res.rcode = RcodeServerFailure
                  /\ ~last.res.forwarded

\* C36: a read-only handle of the key-value backend has no GC goroutine and
\* sees no tick and no attempt; on a read-write handle an attempt follows a
\* tick or an attempt that succeeded, an attempt that succeeds is followed
\* by another at once, and after the first attempt that returns an error
\* (nothing to rewrite included) the goroutine waits for the next tick.
C36_GcOnlyReadWrite ==
    [][/\ (db.kind = "badger" /\ db.readOnly) =>
             (db.gc = "none" /\ last'.op \notin {"tick", "gc"})
       /\ last'.op = "tick" => (db.gc = "waiting" /\ db'.gc = "again")
       /\ last'.op = "gc" =>
             /\ db.gc = "again"
             /\ last.op = "tick" \/ (last.op = "gc" /\ last.err = Nil)
                   \/ last.op \in {"dns", "close"}
             /\ db'.gc = IF last'.err = Nil THEN "again" ELSE "waiting"]_vars

\* after a tick, two attempts succeeded and the third found nothing to
\* rewrite: the goroutine waits at the ticker
C36_Witness ==
    /\ db.kind = "badger" /\ ~db.readOnly /\ ~db.closed
    /\ last.op = "gc" /\ last.n = 3
    /\ last.err = "Value log GC attempt didn't result in any cleanup"
    /\ db.gc = "waiting"

\* C37: once Close has been called on a handle of the key-value backend the
\* GC goroutine takes no tick and makes no attempt on it.
C37_NoGcAfterClose ==
    [][Closed(db) => last'.op \notin {"tick", "gc"}]_vars

(***************************************************************************)
(* Calls of the store from goroutines that run at the same time: each HTTP *)
(* request and each DNS query is served by a goroutine of its own.  MemDB  *)
(* holds no lock, so its PresentRecord is two steps that other calls may   *)
(* come between: the loop over the values read, and the append.  A call of *)
(* the other two backends is one statement or transaction of the engine.   *)
(***************************************************************************)

ConcLast(op, p, fqdn, value, val, err) ==
    [op |-> op, p |-> p, fqdn |-> fqdn, value |-> value, val |-> val, err |-> err]

\* goroutine p calls PresentRecord(fqdn, value); on MemDB it runs the loop
\* over the values read and returns when the value is among them
ConcPresentBegin ==
    /\ \E p \in Procs, fqdn \in {NameE}, value \in {ValueA, ValueB} :
          /\ calls[p] = Idle
          /\ IF db.kind = "mem"
             THEN IF fqdn \in DOMAIN db.records /\ value \in Range(db.records[fqdn])
                  THEN /\ last' = ConcLast("present", p, fqdn, value, <<>>, Nil)
                       /\ UNCHANGED <<db, calls>>
                  ELSE /\ calls' = [calls EXCEPT ![p] = [pc |-> "append", fqdn |-> fqdn, value |-> value]]
                       /\ last' = ConcLast("loop", p, fqdn, value, <<>>, Nil)
                       /\ UNCHANGED db
             ELSE /\ db' = PresentRecord(db, fqdn, value).db
                  /\ last' = ConcLast("present", p, fqdn, value, <<>>, PresentRecord(db, fqdn, value).err)
                  /\ UNCHANGED calls
    /\ UNCHANGED <<cfg, live, presented>>

\* goroutine p, past the loop of MemDB.PresentRecord, returns after
\* m.records[fqdn] = append(m.records[fqdn], value)
ConcPresentEnd ==
    /\ \E p \in Procs :
          /\ calls[p].pc = "append"
          /\ LET fqdn == calls[p].fqdn
                 records == IF fqdn \in DOMAIN db.records THEN db.records[fqdn] ELSE <<>>
             IN  db' = [db EXCEPT !.records = MapPut(@, fqdn, Append(records, calls[p].value))]
          /\ calls' = [calls EXCEPT ![p] = Idle]
          /\ last' = ConcLast("present", p, calls[p].fqdn, calls[p].value, <<>>, Nil)
    /\ UNCHANGED <<cfg, live, presented>>

ConcCleanup ==
    /\ \E p \in Procs, fqdn \in {NameE}, value \in {ValueA, ValueB} :
          /\ calls[p] = Idle
          /\ db' = CleanupRecord(db, fqdn, value).db
          /\ last' = ConcLast("cleanup", p, fqdn, value, <<>>, CleanupRecord(db, fqdn, value).err)
    /\ UNCHANGED <<cfg, live, presented, calls>>

ConcGetRecords ==
    /\ \E p \in Procs, fqdn \in {NameE} :
          /\ calls[p] = Idle
          /\ last' = ConcLast("get", p, fqdn, <<>>, GetRecords(db, fqdn).val, GetRecords(db, fqdn).err)
    /\ UNCHANGED <<db, cfg, live, presented, calls>>

SpecConcurrent ==
    InitStore /\ [][ConcPresentBegin \/ ConcPresentEnd \/ ConcCleanup \/ ConcGetRecords]_vars

\* C35: with calls of the store running at the same time and no lock around
\* them, on every backend GetRecords returns a list without duplicates,
\* and when the PresentRecord calls have returned every value is stored
\* under its name at most once.
C35_ConcurrentCallsSafe ==
    /\ last.op = "get" => \A v \in {ValueA, ValueB} : Count(last.val, v) <= 1
    /\ (\A p \in Procs : calls[p] = Idle) =>
          \A v \in {ValueA, ValueB} : Count(GetRecords(db, NameE).val, v) <= 1

====
